---- MODULE Spec2Model ----
(***************************************************************************)
(* Model of the MQTT bridge of ebusd (src/ebusd/mqtthandler.cpp):          *)
(*   - the topic template engine (MqttReplacer),                           *)
(*   - the inbound command dispatcher (MqttHandler::notifyTopic),          *)
(*   - the connection engine and worker loop (MqttHandler::run).           *)
(* Strings are sequences of one-character strings; positions are 0-based   *)
(* as in the C++ code, NPOS stands for string::npos.                       *)
(***************************************************************************)
EXTENDS Integers, Sequences, FiniteSets, TLC

VARIABLES
  \* ---- topic template engine (pure functions under test)
  tplParts,        \* m_parts of the MqttReplacer under test
  tplValues,       \* the value set handed to MqttReplacer::get
  tplRendered,     \* result of MqttReplacer::get
  tplMatch,        \* result of MqttReplacer::matchTopic on the rendered string
  tplPc,           \* "parsed" -> "rendered" -> "matched"
  \* ---- configuration
  g_topicReplacer, \* parts of the configured topic template
  g_retain,        \* --mqttretain
  m_subscribeConfigRestartTopic,
  m_subscribeConfigRestartPayload,
  g_ignoreInvalidParams, \* --mqttignoreinvalid
  g_onlyChanges,   \* --mqttchanges
  m_hasDefinitionTopic,  \* the integration file sets definition-topic
  m_hasGlobalDefinition, \* the integration file sets def_global-topic
  \* ---- the bus message catalog (MessageMap), as far as the bridge changes it
  pollPrio,        \* poll priority of every catalog message
  msgCreateTime,   \* Message::getCreateTime of every catalog message
  lastChangeTime,  \* Message::getLastChangeTime of every catalog message
  m_updatedMessages, \* keys of the messages notified since the last flush
  \* ---- dispatcher (MqttHandler::notifyTopic)
  inTopic,         \* topic of the last inbound message
  inData,          \* payload of the last inbound message
  findCalls,       \* calls of MessageMap::find made by the last notifyTopic
  busCalls,        \* calls of BusHandler::readFromBus made by the last notifyTopic
  prioCalls,       \* calls of Message::setPollPriority made by the last notifyTopic
  pubMsgs,         \* calls of publishMessage made by the last notifyTopic
  errLogged,       \* "received unmatchable topic" was logged by the last notifyTopic
  busRet,          \* what readFromBus returned to the last notifyTopic, "none" if not called
  \* ---- the handler (MqttHandler) and its worker thread
  m_definitionsSince,
  life,            \* "init", "constructed", "started", "joining", "destroyed"
  worker,          \* the thread of run: "none", "loop", "done"
  running,         \* WaitThread::isRunning
  m_mosquitto,     \* the client handle exists
  m_connected,
  m_initialConnectFailed,
  m_lastErrorLogTime,
  clock,           \* what time() returned last
  \* ---- locals of MqttHandler::run
  start,
  lastTaskRun,
  allowReconnect,
  signal,
  lastUpdates,
  \* ---- the pub/sub client (libmosquitto), as far as the bridge drives it
  will,            \* the last will registered with mosquitto_will_set
  link,            \* the connection: "none", "pending" (requested), "up"
  pubs,            \* mosquitto_publish calls made by the last step, in order
  subs,            \* mosquitto_subscribe calls made by the last step, in order
  connCall,        \* connect call made by the last step: "none", "connect", "reconnect"
  connRet,         \* what that call returned
  cbSeen,          \* callback invoked by mosquitto_loop in the last step
  logged,          \* error lines logged by the last step
  flushTrace,      \* lock, lookup and publish calls of the flush of the last step
  \* ---- history
  periodicFired,   \* the last iteration of run took the periodic-task branch
  initialRet,      \* what the constructor's mosquitto_connect returned
  connectSucceeded, \* a mosquitto_connect made by handleTraffic returned success
  definedMsgs,     \* the catalog messages a definition pass has published so far
  changedMsgs,     \* the messages whose data changed since the last flush to the broker
  \* ---- a variable store (MqttReplacers)
  m_constants,     \* name -> constant string
  m_replacers,     \* name -> [parts, emptyIfMissing], the unresolved templates
  stOp,            \* the last operation on the store, its arguments and its result
  intLines,        \* entries of the integration text not yet handed to parseIntegration
  \* ---- one template (MqttReplacer) under direct calls
  m_emptyIfMissing, \* the flag of the template whose parts are tplParts
  tplCall          \* the last call on the template, its arguments and its result

tplCallVars == <<m_emptyIfMissing, tplCall>>
tplVars == <<tplParts, tplValues, tplRendered, tplMatch, tplPc, tplCallVars>>
cfgVars == <<g_topicReplacer, g_retain, m_subscribeConfigRestartTopic,
             m_subscribeConfigRestartPayload, g_ignoreInvalidParams, g_onlyChanges,
             m_hasDefinitionTopic, m_hasGlobalDefinition>>
dispVars == <<pollPrio, inTopic, inData, findCalls, busCalls,
              prioCalls, pubMsgs, errLogged, busRet>>
catVars == <<msgCreateTime, lastChangeTime, m_updatedMessages>>
connVars == <<life, worker, running, m_mosquitto, m_connected, m_initialConnectFailed,
              m_lastErrorLogTime, clock, will, link>>
runVars == <<start, lastTaskRun, allowReconnect, signal, lastUpdates>>
histVars == <<subs, connCall, connRet, cbSeen, logged, flushTrace, periodicFired,
              initialRet, connectSucceeded, definedMsgs, changedMsgs>>
engineVars == <<catVars, connVars, runVars, histVars>>
storeVars == <<m_constants, m_replacers, stOp, intLines>>
vars == <<tplVars, cfgVars, dispVars, m_definitionsSince, engineVars, pubs, storeVars>>

-----------------------------------------------------------------------------
(* Characters and std::string primitives                                   *)

NPOS == -1

NUL == "NUL"

LowerChars == {"a","b","c","d","e","f","g","h","i","j","k","l","m",
               "n","o","p","q","r","s","t","u","v","w","x","y","z"}

UpperChars == {"A","B","C","D","E","F","G","H","I","J","K","L","M",
               "N","O","P","Q","R","S","T","U","V","W","X","Y","Z"}

DigitSeq == <<"0","1","2","3","4","5","6","7","8","9">>

DigitChars == {DigitSeq[i] : i \in 1..Len(DigitSeq)}

Min(a, b) == IF a < b THEN a ELSE b

\* std::string::substr(pos, n) for pos <= size()
Substr(s, pos, n) == SubSeq(s, pos + 1, Min(pos + n, Len(s)))

\* std::string::substr(pos)
SubstrFrom(s, pos) == SubSeq(s, pos + 1, Len(s))

\* std::string::find(needle, from)
RECURSIVE Find(_, _, _)
Find(s, needle, from) ==
  IF from + Len(needle) > Len(s) THEN NPOS
  ELSE IF SubSeq(s, from + 1, from + Len(needle)) = needle THEN from
  ELSE Find(s, needle, from + 1)

\* std::string::find(ch, from)
RECURSIVE FindChar(_, _, _)
FindChar(s, ch, from) ==
  IF from >= Len(s) THEN NPOS
  ELSE IF s[from + 1] = ch THEN from
  ELSE FindChar(s, ch, from + 1)

\* the scan of std::string::rfind(ch), from position i downwards
RECURSIVE RFindFrom(_, _, _)
RFindFrom(s, ch, i) ==
  IF i < 0 THEN NPOS
  ELSE IF s[i + 1] = ch THEN i
  ELSE RFindFrom(s, ch, i - 1)

\* std::string::rfind(ch) and std::string::find_last_of(ch)
RFindChar(s, ch) == RFindFrom(s, ch, Len(s) - 1)

-----------------------------------------------------------------------------
(* Template parts                                                          *)

sCircuit == <<"c","i","r","c","u","i","t">>
sName == <<"n","a","m","e">>
sField == <<"f","i","e","l","d">>

knownFieldNames == <<sCircuit, sName, sField>>

knownFieldCount == Len(knownFieldNames)

PACKAGE == <<"e","b","u","s","d">>

Part(first, second) == [first |-> first, second |-> second]

makeField(name, isField) ==
  IF ~isField THEN Part(name, -1)
  ELSE LET hits == {idx \in 0..(knownFieldCount - 1) : knownFieldNames[idx + 1] = name}
       IN IF hits # {} THEN Part(name, CHOOSE idx \in hits : TRUE)
          ELSE Part(name, knownFieldCount)

IsFieldChar(ch) == ch \in LowerChars \/ ch \in UpperChars \/ ch = "_"

\* the character loop of MqttReplacer::parse without the "%%" case
RECURSIVE ParseScan_NoEscape(_, _, _, _, _)
ParseScan_NoEscape(str, pos, inField, stack, parts) ==
  IF pos > Len(str) THEN parts
  ELSE
    LET ch == IF pos < Len(str) THEN str[pos + 1] ELSE NUL
        empty == stack = <<>>
    IN IF ch = "%" \/ ch = NUL
       THEN ParseScan_NoEscape(str, pos + 1, TRUE, <<>>,
                               IF ~empty THEN Append(parts, makeField(stack, inField))
                                         ELSE parts)
       ELSE IF inField /\ ~IsFieldChar(ch)
            THEN ParseScan_NoEscape(str, pos + 1, FALSE, <<ch>>,
                                    IF ~empty THEN Append(parts, makeField(stack, TRUE))
                                              ELSE parts)
            ELSE ParseScan_NoEscape(str, pos + 1, inField, Append(stack, ch), parts)

\* the character loop of MqttReplacer::parse; stack is the ostringstream
RECURSIVE ParseScan(_, _, _, _, _)
ParseScan(str, pos, inField, stack, parts) ==
  IF pos > Len(str) THEN parts
  ELSE
    LET ch == IF pos < Len(str) THEN str[pos + 1] ELSE NUL
        empty == stack = <<>>
    IN IF ch = "%" \/ ch = NUL
       THEN IF inField /\ empty
            THEN ParseScan(str, pos + 1, FALSE, <<ch>>, parts)
            ELSE ParseScan(str, pos + 1, TRUE, <<>>,
                           IF ~empty THEN Append(parts, makeField(stack, inField))
                                     ELSE parts)
       ELSE IF inField /\ ~IsFieldChar(ch)
            THEN ParseScan(str, pos + 1, FALSE, <<ch>>,
                           IF ~empty THEN Append(parts, makeField(stack, TRUE))
                                     ELSE parts)
            ELSE ParseScan(str, pos + 1, inField, Append(stack, ch), parts)

\* the onlyKnown / noKnownDuplicates scan of MqttReplacer::parse:
\* TRUE iff the scan reaches the end without "return false"
RECURSIVE ParseCheck(_, _, _, _, _)
ParseCheck(parts, i, foundMask, onlyKnown, noKnownDuplicates) ==
  IF i > Len(parts) THEN TRUE
  ELSE
    LET second == parts[i].second
    IN IF second < 0 THEN ParseCheck(parts, i + 1, foundMask, onlyKnown, noKnownDuplicates)
       ELSE IF onlyKnown /\ second >= knownFieldCount THEN FALSE
       ELSE IF noKnownDuplicates /\ second < knownFieldCount
            THEN IF second \in foundMask THEN FALSE
                 ELSE ParseCheck(parts, i + 1, foundMask \cup {second},
                                 onlyKnown, noKnownDuplicates)
            ELSE ParseCheck(parts, i + 1, foundMask, onlyKnown, noKnownDuplicates)

\* MqttReplacer::parse applied to a replacer [parts, emptyIfMissing]:
\* the result and the replacer's state afterwards
parse(self, templateStr, onlyKnown, noKnownDuplicates, emptyIfMissing) ==
  LET parts == ParseScan(templateStr, 0, FALSE, <<>>, <<>>)
      ok == (~(onlyKnown \/ noKnownDuplicates))
              \/ ParseCheck(parts, 1, {}, onlyKnown, noKnownDuplicates)
  IN [ret |-> ok,
      parts |-> parts,
      emptyIfMissing |-> IF ok THEN emptyIfMissing ELSE self.emptyIfMissing]

has(parts, field) ==
  \E i \in 1..Len(parts) : parts[i].second >= 0 /\ parts[i].first = field

\* ensureDefault without its has() tests
ensureDefault_AlwaysAppend(parts) ==
  LET p1 == IF parts = <<>> THEN <<Part(PACKAGE \o <<"/">>, -1)>>
            ELSE IF Len(parts) = 1 /\ parts[1].second < 0
                    /\ FindChar(parts[1].first, "/", 0) = NPOS
                 THEN <<Part(parts[1].first \o <<"/">>, -1)>>
                 ELSE parts
  IN p1 \o <<Part(sCircuit, 0), Part(<<"/">>, -1), Part(sName, 1)>>

ensureDefault(parts) ==
  LET p1 == IF parts = <<>> THEN <<Part(PACKAGE \o <<"/">>, -1)>>
            ELSE IF Len(parts) = 1 /\ parts[1].second < 0
                    /\ FindChar(parts[1].first, "/", 0) = NPOS
                 THEN <<Part(parts[1].first \o <<"/">>, -1)>>
                 ELSE parts
      p2 == IF ~has(p1, sCircuit)
            THEN p1 \o <<Part(sCircuit, 0), Part(<<"/">>, -1)>>
            ELSE p1
  IN IF ~has(p2, sName) THEN Append(p2, Part(sName, 1)) ELSE p2

\* MqttReplacer::create: the parts of the new replacer, or <<"null">>
NullReplacer == <<"null">>

create(templateStr, withDefault, onlyKnown, noKnownDuplicates) ==
  LET r == parse([parts |-> <<>>, emptyIfMissing |-> FALSE], templateStr,
                 onlyKnown, noKnownDuplicates, FALSE)
  IN IF r.ret THEN (IF withDefault THEN ensureDefault(r.parts) ELSE r.parts)
     ELSE NullReplacer

normalizeChar(c) ==
  IF c \in LowerChars \/ c \in UpperChars \/ c \in DigitChars THEN c ELSE "_"

normalize(str) == [i \in 1..Len(str) |-> normalizeChar(str[i])]

\* the loop of MqttReplacer::get; values is a function from field names to strings
RECURSIVE GetScan(_, _, _, _, _)
GetScan(parts, i, values, untilFirstEmpty, ret) ==
  IF i > Len(parts) THEN ret
  ELSE IF parts[i].second < 0
       THEN GetScan(parts, i + 1, values, untilFirstEmpty, ret \o parts[i].first)
  ELSE IF parts[i].first \notin DOMAIN values
       THEN IF untilFirstEmpty THEN ret
            ELSE GetScan(parts, i + 1, values, untilFirstEmpty, ret)
  ELSE IF untilFirstEmpty /\ values[parts[i].first] = <<>> THEN ret
  ELSE GetScan(parts, i + 1, values, untilFirstEmpty, ret \o values[parts[i].first])

get(parts, values, untilFirstEmpty, onlyAlphanum) ==
  LET ret == GetScan(parts, 1, values, untilFirstEmpty, <<>>)
  IN IF ~onlyAlphanum THEN ret ELSE normalize(ret)

MatchResult(ret, circuit, name, field) ==
  [ret |-> ret, circuit |-> circuit, name |-> name, field |-> field]

\* the value a trailing field part takes in MqttReplacer::matchTopic
matchLastValue(remain, last) == remain

\* the result of MqttReplacer::matchTopic when a literal part does not match
matchLiteralFail(idx) == idx

\* the loop of MqttReplacer::matchTopic; idx is 0-based, out holds the out-parameters
RECURSIVE MatchScan(_, _, _, _, _)
MatchScan(parts, remain, idx, last, out) ==
  LET count == Len(parts)
  IN IF idx >= count THEN [out EXCEPT !.ret = idx]
     ELSE
       LET part == parts[idx + 1]
       IN IF part.second < 0
          THEN IF Substr(remain, last, Len(part.first)) # part.first
               THEN [out EXCEPT !.ret = matchLiteralFail(idx)]
               ELSE MatchScan(parts, remain, idx + 1, last + Len(part.first), out)
          ELSE
            LET pos == IF idx + 1 < count
                       THEN Find(remain, parts[idx + 2].first, last)
                       ELSE FindChar(remain, "/", last)
                failed == IF idx + 1 < count THEN pos = NPOS ELSE pos # NPOS
                value == IF idx + 1 < count THEN Substr(remain, last, pos - last)
                         ELSE matchLastValue(remain, last)
                out2 == CASE part.second = 0 -> [out EXCEPT !.circuit = value]
                          [] part.second = 1 -> [out EXCEPT !.name = value]
                          [] part.second = 2 -> [out EXCEPT !.field = value]
                          [] OTHER -> out
            IN IF failed THEN [out EXCEPT !.ret = -idx - 1]
               ELSE MatchScan(parts, remain, idx + 1, last + Len(value), out2)

matchTopic(parts, remain) ==
  MatchScan(parts, remain, 0, 0, MatchResult(0, <<>>, <<>>, <<>>))

-----------------------------------------------------------------------------
(* Configuration: the --mqtttopic option                                    *)

\* mqtt_parse_opt, case O_TOPI: the option is rejected unless it is non-empty,
\* holds no '#' or '+' and does not end in '/'
ValidTopicArg(arg) ==
  /\ arg # <<>>
  /\ FindChar(arg, "#", 0) = NPOS
  /\ FindChar(arg, "+", 0) = NPOS
  /\ arg[Len(arg)] # "/"

\* g_topicReplacer = MqttReplacer::create(arg): ensureDefault, onlyKnown and
\* noKnownDuplicates take their default value true
TopicOption(arg) == create(arg, TRUE, TRUE, TRUE)

\* MqttHandler::MqttHandler: without the option the replacer is "new MqttReplacer()"
DefaultTopicReplacer == ensureDefault(<<>>)

sEbusd == <<"e","b","u","s","d">>
sHeating == <<"h","e","a","t","i","n","g">>
sTemp == <<"t","e","m","p">>
sBai == <<"b","a","i">>
sFlow == <<"f","l","o","w">>

\* "ebusd/%circuit/%name"
tFull == sEbusd \o <<"/", "%">> \o sCircuit \o <<"/", "%">> \o sName
\* "ebusd/%circuit/%name/%field"
tByField == tFull \o <<"/", "%">> \o sField
\* "ebusd/%circuit/%name/v"
tTrailing == tFull \o <<"/", "v">>
\* "ebusd/%name/%circuit"
tSwapped == sEbusd \o <<"/", "%">> \o sName \o <<"/", "%">> \o sCircuit
\* "ebusd/%circuit-%name"
tDash == sEbusd \o <<"/", "%">> \o sCircuit \o <<"-", "%">> \o sName
\* "home/ebusd"
tDeep == <<"h","o","m","e","/">> \o sEbusd

TemplateStrings == {sEbusd, tFull, tByField, tTrailing, tSwapped, tDash, tDeep}

TopicReplacers ==
  {DefaultTopicReplacer} \cup {TopicOption(a) : a \in {t \in TemplateStrings : ValidTopicArg(t)}}

\* value sets for circuit, name and field; field may be left out
TplCircuits == {sHeating, sBai}
TplNames == {sTemp, sFlow}
TplFields == {<<"0">>, sTemp}

ValueSets ==
  {[k \in {sCircuit, sName} |-> IF k = sCircuit THEN c ELSE n] :
      c \in TplCircuits, n \in TplNames}
  \cup
  {[k \in {sCircuit, sName, sField} |->
      IF k = sCircuit THEN c ELSE IF k = sName THEN n ELSE f] :
      c \in TplCircuits, n \in TplNames, f \in TplFields}

NoMatch == MatchResult(0, <<>>, <<>>, <<>>)

-----------------------------------------------------------------------------
(* Specification SpecTemplate: render a topic, then match it back           *)

CfgDefault ==
  /\ g_topicReplacer = DefaultTopicReplacer
  /\ g_retain = FALSE
  /\ m_subscribeConfigRestartTopic = <<>>
  /\ m_subscribeConfigRestartPayload = <<>>
  /\ g_ignoreInvalidParams = FALSE
  /\ g_onlyChanges = FALSE
  /\ m_hasDefinitionTopic = FALSE
  /\ m_hasGlobalDefinition = FALSE

DispIdle ==
  /\ pollPrio = <<>>
  /\ inTopic = <<>>
  /\ inData = <<>>
  /\ findCalls = <<>>
  /\ busCalls = <<>>
  /\ prioCalls = <<>>
  /\ pubMsgs = <<>>
  /\ errLogged = FALSE
  /\ busRet = "none"

\* no call was made on the template
NoCall == [op |-> "none"]

TplCallIdle ==
  /\ m_emptyIfMissing = FALSE
  /\ tplCall = NoCall

TplIdle ==
  /\ TplCallIdle
  /\ tplParts = <<>>
  /\ tplValues = <<>>
  /\ tplRendered = <<>>
  /\ tplMatch = NoMatch
  /\ tplPc = "idle"

\* no store operation has run
NoOp == [op |-> "none"]

\* a default-constructed MqttReplacers
StoreIdle ==
  /\ m_constants = <<>>
  /\ m_replacers = <<>>
  /\ stOp = NoOp
  /\ intLines = <<>>

NoWill == [topic |-> <<>>, data |-> <<>>, retain |-> FALSE]

\* no handler exists
EngineIdle ==
  /\ msgCreateTime = <<>>
  /\ lastChangeTime = <<>>
  /\ m_updatedMessages = {}
  /\ life = "init"
  /\ worker = "none"
  /\ running = FALSE
  /\ m_mosquitto = FALSE
  /\ m_connected = FALSE
  /\ m_initialConnectFailed = FALSE
  /\ m_lastErrorLogTime = 0
  /\ clock = 0
  /\ will = NoWill
  /\ link = "none"
  /\ start = 0
  /\ lastTaskRun = 0
  /\ allowReconnect = FALSE
  /\ signal = FALSE
  /\ lastUpdates = 0
  /\ subs = <<>>
  /\ connCall = "none"
  /\ connRet = "none"
  /\ cbSeen = "none"
  /\ logged = <<>>
  /\ flushTrace = <<>>
  /\ definedMsgs = {}
  /\ changedMsgs = {}
  /\ periodicFired = FALSE
  /\ initialRet = "none"
  /\ connectSucceeded = FALSE

InitTemplate ==
  /\ TplCallIdle
  /\ StoreIdle
  /\ tplParts \in TopicReplacers
  /\ tplValues \in ValueSets
  /\ tplRendered = <<>>
  /\ tplMatch = NoMatch
  /\ tplPc = "parsed"
  /\ CfgDefault
  /\ DispIdle
  /\ EngineIdle
  /\ m_definitionsSince = 0
  /\ pubs = <<>>

\* MqttHandler::getTopic: g_topicReplacer->get(values)
TplRender ==
  /\ tplPc = "parsed"
  /\ tplRendered' = get(tplParts, tplValues, TRUE, FALSE)
  /\ tplPc' = "rendered"
  /\ UNCHANGED <<tplCallVars, storeVars, tplParts, tplValues, tplMatch, cfgVars, dispVars, m_definitionsSince,
                 engineVars, pubs>>

\* MqttHandler::notifyTopic: g_topicReplacer->matchTopic(...)
TplMatch ==
  /\ tplPc = "rendered"
  /\ tplMatch' = matchTopic(tplParts, tplRendered)
  /\ tplPc' = "matched"
  /\ UNCHANGED <<tplCallVars, storeVars, tplParts, tplValues, tplRendered, cfgVars, dispVars,
                 m_definitionsSince, engineVars, pubs>>

NextTemplate == TplRender \/ TplMatch

SpecTemplate == InitTemplate /\ [][NextTemplate]_vars

\* the value set supplies every field of the template, non-empty and without '/'
Satisfies(parts, values) ==
  \A i \in 1..Len(parts) :
    parts[i].second >= 0 =>
      /\ parts[i].first \in DOMAIN values
      /\ values[parts[i].first] # <<>>
      /\ FindChar(values[parts[i].first], "/", 0) = NPOS

\* C1: for every template and every value set that supplies all of its fields,
\* matching the rendered topic succeeds and returns exactly the circuit, name
\* and field values that were rendered.
C1_MatchInvertsRender ==
  (tplPc = "matched" /\ Satisfies(tplParts, tplValues)) =>
    /\ tplMatch.ret >= 0
    /\ has(tplParts, sCircuit) => tplMatch.circuit = tplValues[sCircuit]
    /\ has(tplParts, sName) => tplMatch.name = tplValues[sName]
    /\ has(tplParts, sField) => tplMatch.field = tplValues[sField]

-----------------------------------------------------------------------------
(* The bus message catalog (MessageMap, external) and the bus handler       *)

sHeater == <<"h","e","a","t","e","r">>
sMode == <<"m","o","d","e">>

\* the catalog entries: circuit, name, direction, passive flag, field names and
\* whether data was received yet (getLastUpdateTime() > 0)
Catalog ==
  << [circuit |-> sHeating, name |-> sTemp, isWrite |-> FALSE, isPassive |-> FALSE,
      fields |-> <<sTemp>>, hasData |-> TRUE],
     [circuit |-> sHeating, name |-> sTemp, isWrite |-> TRUE, isPassive |-> FALSE,
      fields |-> <<sTemp>>, hasData |-> FALSE],
     [circuit |-> sHeating, name |-> sFlow, isWrite |-> FALSE, isPassive |-> TRUE,
      fields |-> <<sFlow>>, hasData |-> TRUE],
     [circuit |-> sHeater, name |-> sMode, isWrite |-> FALSE, isPassive |-> FALSE,
      fields |-> <<sMode, sTemp>>, hasData |-> FALSE],
     [circuit |-> sBai, name |-> sTemp, isWrite |-> FALSE, isPassive |-> FALSE,
      fields |-> <<sTemp>>, hasData |-> TRUE] >>

MessageIds == 1..Len(Catalog)

NullMessage == 0

\* MessageMap::find(circuit, name, levels, isWrite, relaxed): the entry with that
\* circuit, name and direction; passive entries are found by the relaxed lookup only
mapFind(circuit, name, isWrite, relaxed) ==
  LET hits == {m \in MessageIds :
                 /\ Catalog[m].circuit = circuit
                 /\ Catalog[m].name = name
                 /\ Catalog[m].isWrite = isWrite
                 /\ (relaxed \/ ~Catalog[m].isPassive)}
  IN IF hits = {} THEN NullMessage ELSE CHOOSE m \in hits : \A o \in hits : m <= o

\* one filter of MessageMap::findAll: an empty filter accepts everything, a
\* complete match compares for equality, a partial match looks for a substring
mapFilter(value, filter, completeMatch) ==
  \/ filter = <<>>
  \/ IF completeMatch THEN value = filter ELSE Find(value, filter, 0) # NPOS

\* MessageMap::findAll(circuit, name, levels, completeMatch, ...): the ids of the
\* matching entries in catalog order
mapFindAll(circuit, name, completeMatch) ==
  SelectSeq([m \in MessageIds |-> m],
            LAMBDA m : /\ mapFilter(Catalog[m].circuit, circuit, completeMatch)
                       /\ mapFilter(Catalog[m].name, name, completeMatch))

RESULT_OK == "RESULT_OK"
RESULT_ERR == "RESULT_ERR"

\* parseInt(str, 10, minValue, maxValue, &result): a decimal digit string in range
RECURSIVE DecValue(_, _)
DecValue(str, acc) ==
  IF str = <<>> THEN acc
  ELSE DecValue(Tail(str),
                acc * 10 + (CHOOSE d \in 0..9 : DigitSeq[d + 1] = Head(str)))

parseInt(str, minValue, maxValue) ==
  IF str = <<>> \/ \E i \in 1..Len(str) : str[i] \notin DigitChars
  THEN [result |-> RESULT_ERR, value |-> 0]
  ELSE LET v == DecValue(str, 0)
       IN IF v < minValue \/ v > maxValue THEN [result |-> RESULT_ERR, value |-> 0]
          ELSE [result |-> RESULT_OK, value |-> v]

UI_FIELD_SEPARATOR == ";"

-----------------------------------------------------------------------------
(* Publishing                                                               *)

\* one mosquitto_publish call
Pub(topic, data, retain) == [topic |-> topic, data |-> data, retain |-> retain]

\* MqttHandler::publishTopic: the mosquitto_publish call it makes
publishTopic(topic, data, retain) == Pub(topic, data, g_retain \/ retain)

\* MqttHandler::publishEmptyTopic: the mosquitto_publish call it makes
publishEmptyTopic(topic) == Pub(topic, <<>>, g_retain)

\* MqttHandler::getTopic; message is a catalog id or NullMessage
getTopic(message, suffix, fieldName) ==
  LET keys == IF message = NullMessage THEN {}
              ELSE {sCircuit, sName} \cup (IF fieldName # <<>> THEN {sField} ELSE {})
      values == [k \in keys |->
                   IF k = sCircuit THEN Catalog[message].circuit
                   ELSE IF k = sName THEN Catalog[message].name
                   ELSE fieldName]
  IN get(g_topicReplacer, values, TRUE, FALSE) \o suffix

\* Message::decodeLastData: the decoded text of the whole message (index 0) or of
\* one field
Decoded(message, index) == <<"data", DigitSeq[message + 1], DigitSeq[index + 1]>>

m_publishByField == has(g_topicReplacer, sField)

\* the per-field loop of MqttHandler::publishMessage; index is 1-based here
RECURSIVE PublishFields(_, _, _, _, _)
PublishFields(message, index, noData, failAt, out) ==
  IF index > Len(Catalog[message].fields) THEN out
  ELSE
    LET name == Catalog[message].fields[index]
    IN IF noData
       THEN PublishFields(message, index + 1, noData, failAt,
                          Append(out, publishEmptyTopic(getTopic(message, <<>>, name))))
       ELSE IF failAt = index THEN out
       ELSE PublishFields(message, index + 1, noData, failAt,
                          Append(out, publishTopic(getTopic(message, <<>>, name),
                                                   Decoded(message, index), FALSE)))

\* MqttHandler::publishMessage: the mosquitto_publish calls it makes; decoding of
\* field failAt fails (0: no decode failure)
publishMessage(message, includeWithoutData, failAt) ==
  LET noData == includeWithoutData /\ ~Catalog[message].hasData
  IN IF ~m_publishByField
     THEN IF noData THEN <<publishEmptyTopic(getTopic(message, <<>>, <<>>))>>
          ELSE IF failAt # 0 THEN <<>>
          ELSE <<publishTopic(getTopic(message, <<>>, <<>>), Decoded(message, 0), FALSE)>>
     ELSE PublishFields(message, 1, noData, failAt, <<>>)

-----------------------------------------------------------------------------
(* MqttHandler::notifyTopic                                                 *)

sSet == <<"s","e","t">>
sGet == <<"g","e","t">>
sList == <<"l","i","s","t">>

\* what one call of notifyTopic did
Outcome(finds, buses, prios, msgs, published, err, prio, since) ==
  [findCalls |-> finds, busCalls |-> buses, prioCalls |-> prios, pubMsgs |-> msgs,
   pubs |-> published, errLogged |-> err, pollPrio |-> prio,
   m_definitionsSince |-> since]

NoOutcome(err) == Outcome(<<>>, <<>>, <<>>, <<>>, <<>>, err, pollPrio, m_definitionsSince)

EndsWithStar(str) == Len(str) > 0 /\ RFindChar(str, "*") = Len(str) - 1

\* the list branch: the filter applied to every entry findAll returned
listSkips(m, circuit, name, circuitPrefix, namePrefix) ==
  \/ /\ circuitPrefix
     /\ \/ Substr(Catalog[m].circuit, 0, Len(circuit)) # circuit
        \/ (~namePrefix /\ Len(name) > 0 /\ Catalog[m].name # name)
  \/ /\ namePrefix
     /\ \/ Substr(Catalog[m].name, 0, Len(name)) # name
        \/ (~circuitPrefix /\ Len(circuit) > 0 /\ Catalog[m].circuit # circuit)

RECURSIVE ConcatPubs(_, _, _)
ConcatPubs(msgs, i, failAt) ==
  IF i > Len(msgs) THEN <<>>
  ELSE publishMessage(msgs[i], TRUE, failAt) \o ConcatPubs(msgs, i + 1, failAt)

notifyList(circuitIn, nameIn, data, err, failAt) ==
  LET circuitPrefix == EndsWithStar(circuitIn)
      circuit == IF circuitPrefix THEN Substr(circuitIn, 0, Len(circuitIn) - 1)
                 ELSE circuitIn
      namePrefix == EndsWithStar(nameIn)
      name == IF namePrefix THEN Substr(nameIn, 0, Len(nameIn) - 1) ELSE nameIn
      messages == mapFindAll(circuit, name, ~(circuitPrefix \/ namePrefix))
      onlyWithData == data # <<>>
      kept == SelectSeq(messages,
                LAMBDA m : /\ ~listSkips(m, circuit, name, circuitPrefix, namePrefix)
                           /\ ~(onlyWithData /\ ~Catalog[m].hasData))
  IN Outcome(<<>>, <<>>, <<>>,
             [i \in 1..Len(kept) |-> [message |-> kept[i], includeWithoutData |-> TRUE]],
             ConcatPubs(kept, 1, failAt), err,
             pollPrio, m_definitionsSince)

\* the '?' handling of a get with payload: position of the priority suffix or NPOS
prioSuffixPos(data) ==
  LET pos == RFindChar(data, "?")
  IN IF pos # NPOS /\ pos > 0 /\ data[pos] # UI_FIELD_SEPARATOR THEN NPOS ELSE pos

\* variant that cuts the suffix only and keeps the separator
prioStripData_KeepSeparator(data, pos) == Substr(data, 0, pos)

\* the payload handed to the bus once the suffix at pos is cut off
prioStripData(data, pos) == Substr(data, 0, IF pos > 0 THEN pos - 1 ELSE pos)

\* the get/set part of notifyTopic without the test of the bus result
notifyReadWrite_PublishOnError(circuit, name, isWrite, data, err, busResult, failAt) ==
  IF name = <<>> THEN NoOutcome(err)
  ELSE
    LET first == mapFind(circuit, name, isWrite, FALSE)
        second == mapFind(circuit, name, isWrite, TRUE)
        message == IF first # NullMessage THEN first ELSE second
        finds == <<[circuit |-> circuit, name |-> name, isWrite |-> isWrite,
                    relaxed |-> FALSE]>>
                 \o (IF first = NullMessage
                     THEN <<[circuit |-> circuit, name |-> name, isWrite |-> isWrite,
                             relaxed |-> TRUE]>>
                     ELSE <<>>)
    IN IF message = NullMessage
       THEN Outcome(finds, <<>>, <<>>, <<>>, <<>>, err, pollPrio, m_definitionsSince)
       ELSE IF Catalog[message].isPassive
       THEN Outcome(finds, <<>>, <<>>, <<[message |-> message, includeWithoutData |-> FALSE]>>,
                    publishMessage(message, FALSE, failAt), err, pollPrio,
                    m_definitionsSince)
       ELSE
         LET pos == IF ~isWrite /\ data # <<>> THEN prioSuffixPos(data) ELSE NPOS
             args == IF pos # NPOS THEN SubstrFrom(data, pos + 1) ELSE <<>>
             useData == IF pos # NPOS THEN prioStripData(data, pos) ELSE data
             parsed == parseInt(args, 1, 9)
             setsPrio == pos # NPOS /\ args # <<>> /\ parsed.result = RESULT_OK
                         /\ parsed.value > 0
             prios == IF setsPrio
                      THEN <<[message |-> message, priority |-> parsed.value]>>
                      ELSE <<>>
             prio == IF setsPrio THEN [pollPrio EXCEPT ![message] = parsed.value]
                     ELSE pollPrio
             buses == <<[message |-> message, data |-> useData]>>
         IN Outcome(finds, buses, prios,
                    <<[message |-> message, includeWithoutData |-> FALSE]>>,
                    publishMessage(message, FALSE, failAt), err, prio,
                    m_definitionsSince)

\* the get and set part of MqttHandler::notifyTopic
notifyReadWrite(circuit, name, isWrite, data, err, busResult, failAt) ==
  IF name = <<>> THEN NoOutcome(err)
  ELSE
    LET first == mapFind(circuit, name, isWrite, FALSE)
        second == mapFind(circuit, name, isWrite, TRUE)
        message == IF first # NullMessage THEN first ELSE second
        finds == <<[circuit |-> circuit, name |-> name, isWrite |-> isWrite,
                    relaxed |-> FALSE]>>
                 \o (IF first = NullMessage
                     THEN <<[circuit |-> circuit, name |-> name, isWrite |-> isWrite,
                             relaxed |-> TRUE]>>
                     ELSE <<>>)
    IN IF message = NullMessage
       THEN Outcome(finds, <<>>, <<>>, <<>>, <<>>, err, pollPrio, m_definitionsSince)
       ELSE IF Catalog[message].isPassive
       THEN Outcome(finds, <<>>, <<>>, <<[message |-> message, includeWithoutData |-> FALSE]>>,
                    publishMessage(message, FALSE, failAt), err, pollPrio,
                    m_definitionsSince)
       ELSE
         LET pos == IF ~isWrite /\ data # <<>> THEN prioSuffixPos(data) ELSE NPOS
             args == IF pos # NPOS THEN SubstrFrom(data, pos + 1) ELSE <<>>
             useData == IF pos # NPOS THEN prioStripData(data, pos) ELSE data
             parsed == parseInt(args, 1, 9)
             setsPrio == pos # NPOS /\ args # <<>> /\ parsed.result = RESULT_OK
                         /\ parsed.value > 0
             prios == IF setsPrio
                      THEN <<[message |-> message, priority |-> parsed.value]>>
                      ELSE <<>>
             prio == IF setsPrio THEN [pollPrio EXCEPT ![message] = parsed.value]
                     ELSE pollPrio
             buses == <<[message |-> message, data |-> useData]>>
         IN IF busResult # RESULT_OK
            THEN Outcome(finds, buses, prios, <<>>, <<>>, err, prio, m_definitionsSince)
            ELSE Outcome(finds, buses, prios,
                         <<[message |-> message, includeWithoutData |-> FALSE]>>,
                         publishMessage(message, FALSE, failAt), err, prio,
                         m_definitionsSince)

\* a get or set on a topic that does not match the template dropped after the
\* error was logged
notifyTopic_DropUnmatched(topic, data, busResult, failAt) ==
  LET pos == RFindChar(topic, "/")
  IN IF pos = NPOS THEN NoOutcome(FALSE)
     ELSE IF m_subscribeConfigRestartTopic # <<>> /\ topic = m_subscribeConfigRestartTopic
     THEN Outcome(<<>>, <<>>, <<>>, <<>>, <<>>, FALSE, pollPrio,
                  IF m_subscribeConfigRestartPayload = <<>>
                     \/ data = m_subscribeConfigRestartPayload
                  THEN 0 ELSE m_definitionsSince)
     ELSE
       LET direction == SubstrFrom(topic, pos + 1)
           isWrite == direction = sSet
           isList == ~isWrite /\ direction = sList
       IN IF direction = <<>> THEN NoOutcome(FALSE)
          ELSE IF ~isWrite /\ ~isList /\ direction # sGet THEN NoOutcome(FALSE)
          ELSE
            LET match == matchTopic(g_topicReplacer, Substr(topic, 0, pos))
                err == match.ret < 0 /\ ~isList
            IN IF err THEN NoOutcome(TRUE)
               ELSE IF isList
               THEN notifyList(match.circuit, match.name, data, err, failAt)
               ELSE notifyReadWrite(match.circuit, match.name, isWrite, data, err,
                                    busResult, failAt)

\* MqttHandler::notifyTopic(topic, data); busResult is what readFromBus returns and
\* failAt the field whose decoding fails, should the call get that far
notifyTopic(topic, data, busResult, failAt) ==
  LET pos == RFindChar(topic, "/")
  IN IF pos = NPOS THEN NoOutcome(FALSE)
     ELSE IF m_subscribeConfigRestartTopic # <<>> /\ topic = m_subscribeConfigRestartTopic
     THEN Outcome(<<>>, <<>>, <<>>, <<>>, <<>>, FALSE, pollPrio,
                  IF m_subscribeConfigRestartPayload = <<>>
                     \/ data = m_subscribeConfigRestartPayload
                  THEN 0 ELSE m_definitionsSince)
     ELSE
       LET direction == SubstrFrom(topic, pos + 1)
           isWrite == direction = sSet
           isList == ~isWrite /\ direction = sList
       IN IF direction = <<>> THEN NoOutcome(FALSE)
          ELSE IF ~isWrite /\ ~isList /\ direction # sGet THEN NoOutcome(FALSE)
          ELSE
            LET match == matchTopic(g_topicReplacer, Substr(topic, 0, pos))
                err == match.ret < 0 /\ ~isList
            IN IF isList
               THEN notifyList(match.circuit, match.name, data, err, failAt)
               ELSE notifyReadWrite(match.circuit, match.name, isWrite, data, err,
                                    busResult, failAt)

-----------------------------------------------------------------------------
(* Specification SpecDispatch: inbound messages handed to notifyTopic       *)

Slash == <<"/">>

\* "ebusd/heating/temp"
pHeatingTemp == sEbusd \o Slash \o sHeating \o Slash \o sTemp
\* "ebusd/restart/set"
sRestartTopic == sEbusd \o Slash \o <<"r","e","s","t","a","r","t">> \o Slash \o sSet

InTopics ==
  { pHeatingTemp \o Slash \o sSet,
    pHeatingTemp \o Slash \o sGet,
    pHeatingTemp \o <<"/", "v", "/">> \o sSet,
    pHeatingTemp \o <<"/", "v", "/">> \o sGet,
    pHeatingTemp \o Slash \o sTemp \o Slash \o sGet,
    pHeatingTemp \o Slash \o sTemp \o <<"/", "x", "/">> \o sGet,
    sEbusd \o Slash \o sHeating \o Slash \o sFlow \o <<"/", "v", "/">> \o sGet,
    sEbusd \o Slash \o sHeating \o <<"/", "/">> \o sGet,
    sEbusd \o <<"/", "h", "e", "a", "t", "*", "/", "/">> \o sList,
    sEbusd \o <<"/", "h", "e", "a", "t", "*", "/", "/", "v", "/">> \o sList,
    sEbusd \o <<"/", "b", "a", "i", "/", "t", "*", "/", "v", "/">> \o sList,
    pHeatingTemp \o Slash \o <<"s","t","a","t","e">>,
    sEbusd,
    sRestartTopic }

InPayloads ==
  { <<>>,
    <<"2", "1", ".", "5">>,
    <<"?", "5">>,
    <<"a", ";", "?", "5">>,
    <<"a", "?", "5">>,
    <<"?", "1", "2">>,
    <<"a", "?", ";", "?", "5">>,
    <<"?", "0">> }

DispatchReplacers == {DefaultTopicReplacer, TopicOption(tTrailing), TopicOption(tByField)}

\* the handler is connected and its worker runs; nothing but inbound messages
\* happens
EngineServing ==
  /\ msgCreateTime = <<>>
  /\ lastChangeTime = <<>>
  /\ m_updatedMessages = {}
  /\ life = "started"
  /\ worker = "loop"
  /\ running = TRUE
  /\ m_mosquitto = TRUE
  /\ m_connected = TRUE
  /\ m_initialConnectFailed = FALSE
  /\ m_lastErrorLogTime = 0
  /\ clock = 0
  /\ will = NoWill
  /\ link = "up"
  /\ start = 0
  /\ lastTaskRun = 0
  /\ allowReconnect = FALSE
  /\ signal = FALSE
  /\ lastUpdates = 0
  /\ subs = <<>>
  /\ connCall = "none"
  /\ connRet = "none"
  /\ cbSeen = "none"
  /\ logged = <<>>
  /\ flushTrace = <<>>
  /\ definedMsgs = {}
  /\ changedMsgs = {}
  /\ periodicFired = FALSE
  /\ initialRet = "none"
  /\ connectSucceeded = FALSE

InitDispatch ==
  /\ StoreIdle
  /\ TplIdle
  /\ g_topicReplacer \in DispatchReplacers
  /\ g_retain = FALSE
  /\ m_subscribeConfigRestartTopic = sRestartTopic
  /\ m_subscribeConfigRestartPayload = <<>>
  /\ g_ignoreInvalidParams = FALSE
  /\ g_onlyChanges = FALSE
  /\ m_hasDefinitionTopic = FALSE
  /\ m_hasGlobalDefinition = FALSE
  /\ EngineServing
  /\ pollPrio = [m \in MessageIds |-> 0]
  /\ m_definitionsSince = 1
  /\ inTopic = <<>>
  /\ inData = <<>>
  /\ findCalls = <<>>
  /\ busCalls = <<>>
  /\ prioCalls = <<>>
  /\ pubMsgs = <<>>
  /\ errLogged = FALSE
  /\ busRet = "none"
  /\ pubs = <<>>

\* on_message: the client hands an inbound message to the running handler
OnMessage ==
  /\ running
  /\ \E topic \in InTopics, data \in InPayloads,
     busResult \in {RESULT_OK, RESULT_ERR}, failAt \in {0, 1} :
    \E o \in {notifyTopic(topic, data, busResult, failAt)} :
       /\ inTopic' = topic
       /\ inData' = data
       /\ findCalls' = o.findCalls
       /\ busCalls' = o.busCalls
       /\ prioCalls' = o.prioCalls
       /\ pubMsgs' = o.pubMsgs
       /\ errLogged' = o.errLogged
       /\ busRet' = IF o.busCalls # <<>> THEN busResult ELSE "none"
       /\ pollPrio' = o.pollPrio
       /\ m_definitionsSince' = o.m_definitionsSince
       /\ pubs' = o.pubs
       /\ UNCHANGED <<storeVars, tplVars, cfgVars, engineVars>>

NextDispatch == OnMessage

SpecDispatch == InitDispatch /\ [][NextDispatch]_vars

-----------------------------------------------------------------------------
(* Claims about the dispatcher                                              *)

tpSetHeatingTemp == pHeatingTemp \o Slash \o sSet
tpListHeatStar == sEbusd \o <<"/", "h", "e", "a", "t", "*", "/", "/">> \o sList
dPlainValue == <<"2", "1", ".", "5">>

\* the last inbound message was a get that reached the bus with a payload
GetWithPayloadOnBus ==
  /\ inTopic # <<>>
  /\ SubstrFrom(inTopic, RFindChar(inTopic, "/") + 1) = sGet
  /\ busCalls # <<>>
  /\ inData # <<>>

\* C2: with the template <prefix>/%circuit/%name, <prefix>/heating/temp/set with
\* payload "21.5" looks up circuit "heating", name "temp" as a write and hands
\* the payload to the bus unmodified.
C2_SetRoutesToWrite ==
  (g_topicReplacer = DefaultTopicReplacer /\ inTopic = tpSetHeatingTemp
     /\ inData = dPlainValue) =>
    /\ findCalls # <<>>
    /\ findCalls[1] = [circuit |-> sHeating, name |-> sTemp, isWrite |-> TRUE,
                       relaxed |-> FALSE]
    /\ busCalls = <<[message |-> 2, data |-> dPlainValue]>>

\* the priority a payload asks for: N >= 1 when the text after its last '?' is a
\* decimal number N in 1..9 and that '?' starts the payload or follows the
\* separator, else 0
AskedPriority(data) ==
  LET q == RFindChar(data, "?")
      tail == SubstrFrom(data, q + 1)
  IN IF q = NPOS THEN 0
     ELSE IF q > 0 /\ data[q] # ";" THEN 0
     ELSE IF tail = <<>> \/ \E i \in 1..Len(tail) : tail[i] \notin DigitChars THEN 0
     ELSE IF DecValue(tail, 0) \in 1..9 THEN DecValue(tail, 0) ELSE 0

\* C3: for a get with payload that reaches the bus, a priority bump to N is
\* requested iff the payload ends in "?N" (N in 1..9) at its start or behind the
\* separator, the bus then gets the payload without "?N" and that separator, and
\* a '?' not behind the separator leaves the payload untouched.
C3_PollPriorityBump ==
  GetWithPayloadOnBus =>
    LET q == RFindChar(inData, "?")
        n == AskedPriority(inData)
    IN /\ (prioCalls # <<>>) <=> (n > 0)
       /\ n > 0 => /\ prioCalls = <<[message |-> busCalls[1].message, priority |-> n]>>
                   /\ pollPrio[busCalls[1].message] = n
                   /\ busCalls[1].data = SubSeq(inData, 1, q - 1)
       /\ (q = NPOS \/ (q > 0 /\ inData[q] # ";")) =>
            /\ busCalls[1].data = inData
            /\ prioCalls = <<>>

\* payload "?5" reached the bus as an empty read with a bump to 5
C3_Witness ==
  /\ GetWithPayloadOnBus
  /\ inData = <<"?", "5">>
  /\ busCalls = <<[message |-> 1, data |-> <<>>]>>
  /\ prioCalls = <<[message |-> 1, priority |-> 5]>>

\* the catalog entries whose circuit starts with prefix, in catalog order
CircuitStartsWith(prefix) ==
  SelectSeq([m \in MessageIds |-> m],
            LAMBDA m : Substr(Catalog[m].circuit, 0, Len(prefix)) = prefix)

\* C4: a list command for circuit "heat*" without a name publishes every catalog
\* entry whose circuit starts with "heat", whatever its name, and no other.
C4_ListCircuitPrefix ==
  (g_topicReplacer = DefaultTopicReplacer /\ inTopic = tpListHeatStar /\ inData = <<>>) =>
    [i \in 1..Len(pubMsgs) |-> pubMsgs[i].message] = CircuitStartsWith(<<"h","e","a","t">>)

-----------------------------------------------------------------------------
(* The pub/sub client library (libmosquitto, external)                      *)

MOSQ_ERR_SUCCESS == "MOSQ_ERR_SUCCESS"
MOSQ_ERR_INVAL == "MOSQ_ERR_INVAL"
MOSQ_ERR_NO_CONN == "MOSQ_ERR_NO_CONN"
MOSQ_ERR_CONN_LOST == "MOSQ_ERR_CONN_LOST"
MOSQ_ERR_CONN_REFUSED == "MOSQ_ERR_CONN_REFUSED"
MOSQ_ERR_ERRNO == "MOSQ_ERR_ERRNO"
MOSQ_ERR_PROTOCOL == "MOSQ_ERR_PROTOCOL"

\* what mosquitto_connect and mosquitto_reconnect may return: success (the
\* connection is requested), invalid parameters, or any other failure
ConnectResults == {MOSQ_ERR_SUCCESS, MOSQ_ERR_INVAL, MOSQ_ERR_ERRNO}

\* the state of the client's connection after a connect call returned ret
linkAfterConnect(ret) == IF ret = MOSQ_ERR_SUCCESS THEN "pending" ELSE "none"

LoopOutcome(cb, ret, newLink) == [cb |-> cb, ret |-> ret, link |-> newLink]

\* what one mosquitto_loop call may do: the connect callback it invokes (rc 0,
\* rc != 0 or none), an inbound message on the config-restart topic it delivers,
\* the status it returns and the connection state it leaves; a CONNACK with a
\* return code of 1 to 5 makes the call return MOSQ_ERR_CONN_REFUSED, one with
\* any other code MOSQ_ERR_PROTOCOL, and the connection is closed in both cases
LoopOutcomes(l) ==
  {LoopOutcome("none", MOSQ_ERR_ERRNO, l)}
  \cup
  (CASE l = "none" -> {LoopOutcome("none", MOSQ_ERR_NO_CONN, "none")}
     [] l = "pending" -> {LoopOutcome("none", MOSQ_ERR_SUCCESS, "pending"),
                          LoopOutcome("connack_ok", MOSQ_ERR_SUCCESS, "up"),
                          LoopOutcome("connack_refused", MOSQ_ERR_CONN_REFUSED, "none"),
                          LoopOutcome("connack_refused", MOSQ_ERR_PROTOCOL, "none"),
                          LoopOutcome("none", MOSQ_ERR_CONN_LOST, "none")}
     [] l = "up" -> {LoopOutcome("none", MOSQ_ERR_SUCCESS, "up"),
                     LoopOutcome("none", MOSQ_ERR_CONN_LOST, "none")}
                    \cup (IF m_subscribeConfigRestartTopic # <<>>
                          THEN {LoopOutcome("restart", MOSQ_ERR_SUCCESS, "up")}
                          ELSE {}))

\* check(code, method): the error lines it logs
check(code, method) == IF code = MOSQ_ERR_SUCCESS THEN <<>> ELSE <<method>>

\* mosquitto_publish without a connection returns MOSQ_ERR_NO_CONN
publishResult(l) == IF l = "none" THEN MOSQ_ERR_NO_CONN ELSE MOSQ_ERR_SUCCESS

\* the error lines logged by publishTopic / publishEmptyTopic for n publish calls
RECURSIVE publishLogs(_, _)
publishLogs(n, l) ==
  IF n = 0 THEN <<>> ELSE check(publishResult(l), "publish") \o publishLogs(n - 1, l)

-----------------------------------------------------------------------------
(* Topics of the bridge                                                     *)

sGlobalSlash == <<"g","l","o","b","a","l","/">>
sRunning == <<"r","u","n","n","i","n","g">>
sVersion == <<"v","e","r","s","i","o","n">>
sSignal == <<"s","i","g","n","a","l">>
sUptime == <<"u","p","t","i","m","e">>
sScan == <<"s","c","a","n">>
sTrue == <<"t","r","u","e">>
sFalse == <<"f","a","l","s","e">>

m_globalTopic == getTopic(NullMessage, sGlobalSlash, <<>>)
m_subscribeTopic == getTopic(NullMessage, <<"#">>, <<>>)
signalTopic == m_globalTopic \o sSignal
uptimeTopic == m_globalTopic \o sUptime

\* PACKAGE_STRING "." REVISION and the decimal uptime, not spelled out
VersionData == <<"<version>">>
UptimeData == <<"<uptime>">>
DefinitionData == <<"<definition>">>

\* a last will that reports the bridge as running
willMessage_Running == Pub(m_globalTopic \o sRunning, sTrue, TRUE)

\* the last will registered by the constructor
willMessage == Pub(m_globalTopic \o sRunning, sFalse, TRUE)

-----------------------------------------------------------------------------
(* MqttHandler: construction, connect callback, traffic                     *)

\* invalid parameters fatal whatever ignore-invalid-params says
ctorFatal_EveryInvalid(ret) == ret = MOSQ_ERR_INVAL

\* constructor, after the initial mosquitto_connect returned ret:
\* the handle is destroyed again
ctorFatal(ret) == ret = MOSQ_ERR_INVAL /\ ~g_ignoreInvalidParams

\* constructor: m_initialConnectFailed after a non-fatal failure
ctorInitialConnectFailed(ret) == g_ignoreInvalidParams

\* MqttHandler::notifyConnected: the publish and subscribe calls it makes;
\* isRunning is what isRunning() returns when the callback is invoked
notifyConnected(isRunning) ==
  IF m_mosquitto /\ isRunning
  THEN [pubs |-> <<publishTopic(m_globalTopic \o sVersion, VersionData, TRUE),
                   publishTopic(m_globalTopic \o sRunning, sTrue, TRUE)>>,
        subs |-> <<m_subscribeTopic>>
                 \o (IF m_subscribeConfigRestartTopic # <<>>
                     THEN <<m_subscribeConfigRestartTopic>> ELSE <<>>)]
  ELSE [pubs |-> <<>>, subs |-> <<>>]

\* the connection announced whatever the result code
on_connect_IgnoreRc(rcZero, isRunning) == notifyConnected(isRunning)

\* on_connect(rc); rcZero tells whether rc = 0
on_connect(rcZero, isRunning) ==
  IF rcZero THEN notifyConnected(isRunning) ELSE [pubs |-> <<>>, subs |-> <<>>]

\* on_message: an inbound message is handed to notifyTopic unless the handler
\* is no longer running
on_message(topic, data, isRunning) ==
  IF ~isRunning THEN NoOutcome(FALSE)
  ELSE notifyTopic(topic, data, RESULT_OK, 0)

\* a (re)connect attempted in every iteration that finds the connection gone
mayReconnect_EveryIteration(ret, allow) ==
  ~m_connected /\ ret \in {MOSQ_ERR_NO_CONN, MOSQ_ERR_CONN_LOST}

\* handleTraffic: the condition under which a (re)connect is attempted
mayReconnect(ret, allow) ==
  ~m_connected /\ ret \in {MOSQ_ERR_NO_CONN, MOSQ_ERR_CONN_LOST} /\ allow

\* mosquitto_reconnect used for every attempt
reconnectCall_AlwaysReconnect == "reconnect"

\* handleTraffic: which call a (re)connect attempt makes
reconnectCall == IF m_initialConnectFailed THEN "connect" ELSE "reconnect"

\* handleTraffic: seconds between two logged communication errors
ErrorLogInterval == 10

\* handleTraffic: the rate limit of the error log
mayLogError(now) == now > m_lastErrorLogTime + ErrorLogInterval

\* MqttHandler::handleTraffic(allow): lo is what mosquitto_loop does, cr what a
\* connect call returns, now the time read after the loop
handleTraffic(allow, lo, cr, now) ==
  LET try == mayReconnect(lo.ret, allow)
      call == IF try THEN reconnectCall ELSE "none"
      ret == IF try THEN cr ELSE lo.ret
      initialFailed == IF try /\ call = "connect" /\ ret = MOSQ_ERR_SUCCESS
                       THEN FALSE ELSE m_initialConnectFailed
      newLink == IF try THEN linkAfterConnect(cr) ELSE lo.link
      invalLog == IF try /\ call = "connect" /\ ret = MOSQ_ERR_INVAL
                  THEN <<"unable to connect (invalid parameters), retrying">> ELSE <<>>
      connected == m_connected \/ ret = MOSQ_ERR_SUCCESS
      base == [needsWait |-> FALSE, m_connected |-> connected,
               m_initialConnectFailed |-> initialFailed, link |-> newLink,
               connCall |-> call, connRet |-> IF try THEN cr ELSE "none",
               m_lastErrorLogTime |-> m_lastErrorLogTime, logged |-> invalLog]
  IN IF ~m_mosquitto
     THEN [base EXCEPT !.link = link, !.connCall = "none", !.connRet = "none",
                       !.m_connected = m_connected, !.logged = <<>>,
                       !.m_initialConnectFailed = m_initialConnectFailed]
     ELSE IF ~connected \/ ret = MOSQ_ERR_SUCCESS THEN base
     ELSE IF ret \in {MOSQ_ERR_NO_CONN, MOSQ_ERR_CONN_LOST, MOSQ_ERR_CONN_REFUSED}
     THEN [base EXCEPT !.needsWait = TRUE, !.m_connected = FALSE,
                       !.logged = invalLog \o <<"communication error">>]
     ELSE IF mayLogError(now)
     THEN [base EXCEPT !.needsWait = TRUE, !.m_lastErrorLogTime = now,
                       !.logged = invalLog \o check(ret, "communication error")]
     ELSE [base EXCEPT !.needsWait = TRUE]

-----------------------------------------------------------------------------
(* MqttHandler::run: one iteration of the worker loop                       *)

\* run: seconds between two runs of the periodic task
TaskInterval == 15

\* run: the clock went back behind the start of the worker
clockSkew(now) == now < start

\* run: the periodic task is due
taskDue(now) == now > lastTaskRun + TaskInterval

\* the names of the six global definitions
GlobalNames == <<sRunning, sVersion, sSignal, sUptime,
                 <<"u","p","d","a","t","e","c","h","e","c","k">>, sScan>>

\* the topic a definition is published under, not spelled out
definitionTopic(circuit, name) == <<"<definition>">> \o circuit \o Slash \o name

\* publishDefinition for the six global topics: nothing is published for a name
\* whose definition topic is not configured
RECURSIVE globalDefinitions(_)
globalDefinitions(i) ==
  IF i > Len(GlobalNames) THEN <<>>
  ELSE (IF m_hasGlobalDefinition
        THEN <<publishTopic(definitionTopic(<<"g","l","o","b","a","l">>, GlobalNames[i]),
                            DefinitionData, FALSE)>>
        ELSE <<>>) \o globalDefinitions(i + 1)

\* MqttReplacers::operator[]: the constant of that name, "" if there is none
constantAt(key) == IF key \in DOMAIN m_constants THEN m_constants[key] ELSE <<>>

sFilterPriority == <<"f","i","l","t","e","r","-","p","r","i","o","r","i","t","y">>

Digits == <<"0", "1", "2", "3", "4", "5", "6", "7", "8", "9">>

\* run: filterPriority, parseInt of the constant filter-priority within 0..9,
\* 0 when that fails
filterPriority ==
  LET str == constantAt(sFilterPriority)
  IN IF Len(str) = 1 /\ \E d \in 1..10 : Digits[d] = str[1]
     THEN (CHOOSE d \in 1..10 : Digits[d] = str[1]) - 1
     ELSE 0

\* run: the message passes the filters of the definition pass; the circuit,
\* name and level filters are not configured and let every message pass
passesFilters(m) ==
  ~(filterPriority > 0 /\ (pollPrio[m] = 0 \/ pollPrio[m] > filterPriority))

\* MessageMap::findAll: the messages of the catalog; one not loaded yet has no
\* creation time
findAll == SelectSeq([m \in MessageIds |-> m], LAMBDA m : msgCreateTime[m] > 0)

\* the definition pass: the messages whose definition is published
definitionPass(since) ==
  SelectSeq(findAll, LAMBDA m : ~(msgCreateTime[m] <= since) /\ passesFilters(m))

definitionPubs(msgs) ==
  [i \in 1..Len(msgs) |->
     publishTopic(definitionTopic(Catalog[msgs[i]].circuit, Catalog[msgs[i]].name),
                  DefinitionData, FALSE)]

\* the signal state announced whenever the signal is looked at
signalToPublish_Always(hasSignal, reconnected) ==
  IF hasSignal THEN sTrue ELSE sFalse

\* run: the signal state to announce, "" if none is published
signalToPublish(hasSignal, reconnected) ==
  IF hasSignal THEN (IF ~signal \/ reconnected THEN sTrue ELSE <<>>)
  ELSE (IF signal \/ reconnected THEN sFalse ELSE <<>>)

\* run: the updated messages published by the flush
flushMessages ==
  SelectSeq([m \in MessageIds |-> m],
            LAMBDA m : /\ m \in m_updatedMessages
                       /\ lastChangeTime[m] > 0
                       /\ (~g_onlyChanges \/ lastChangeTime[m] > lastUpdates))

RECURSIVE flushPubs(_, _)
flushPubs(msgs, i) ==
  IF i > Len(msgs) THEN <<>>
  ELSE publishMessage(msgs[i], FALSE, 0) \o flushPubs(msgs, i + 1)

\* run: the calls the flush makes on the catalog lock, the catalog and the
\* client, in order
RECURSIVE flushCalls(_, _)
flushCalls(keys, i) ==
  IF i > Len(keys) THEN <<>>
  ELSE <<"getByKey">>
       \o (IF keys[i] \in {flushMessages[j] : j \in 1..Len(flushMessages)}
           THEN [j \in 1..Len(publishMessage(keys[i], FALSE, 0)) |-> "publish"]
           ELSE <<>>)
       \o flushCalls(keys, i + 1)

flushLocked(connected) ==
  IF m_updatedMessages = {} THEN <<>>
  ELSE <<"lock">>
       \o (IF connected
           THEN flushCalls(SelectSeq([m \in MessageIds |-> m],
                                     LAMBDA m : m \in m_updatedMessages), 1)
           ELSE <<"clear">>)
       \o <<"unlock">>

\* the flush that steps over the entry following each erased one
RECURSIVE eraseAll_SkipNext(_, _)
eraseAll_SkipNext(keys, i) ==
  IF i > Len(keys) THEN {}
  ELSE (IF i + 1 <= Len(keys) THEN {keys[i + 1]} ELSE {})
       \cup eraseAll_SkipNext(keys, i + 2)

\* run: the loop of the flush over m_updatedMessages, it = erase(it) for every
\* entry: what is left of the queue
RECURSIVE eraseAll(_, _)
eraseAll(keys, i) ==
  IF i > Len(keys) THEN {}
  ELSE eraseAll(keys, i + 1) \ {keys[i]}

\* run: m_updatedMessages after the flush
flushQueue(connected) ==
  IF m_updatedMessages = {} THEN m_updatedMessages
  ELSE IF connected
  THEN eraseAll(SelectSeq([m \in MessageIds |-> m], LAMBDA m : m \in m_updatedMessages), 1)
  ELSE {}

\* the body of the loop of run after handleTraffic returned h; since is
\* m_definitionsSince after the callbacks of this iteration
runBody(h, since, now, hasSignal) ==
  LET connected == h.m_connected
      reconnected == ~m_connected /\ connected
      skew == clockSkew(now)
      due == ~skew /\ taskDue(now)
      uptimePubs == IF due /\ connected
                    THEN <<publishTopic(uptimeTopic, UptimeData, FALSE)>> ELSE <<>>
      globals == due /\ connected /\ since = 0
      since1 == IF globals THEN 1 ELSE since
      pass == due /\ connected /\ m_hasDefinitionTopic
      passMsgs == IF pass THEN definitionPass(since1) ELSE <<>>
      passPubs == definitionPubs(passMsgs)
      sendSignal == reconnected \/ (due /\ connected)
      sig == IF sendSignal THEN signalToPublish(hasSignal, reconnected) ELSE <<>>
      flush == m_updatedMessages # {}
  IN [allowReconnect |-> due,
      periodicFired |-> due,
      lastTaskRun |-> IF skew \/ due THEN now ELSE lastTaskRun,
      m_definitionsSince |-> IF pass THEN now ELSE since1,
      needsWait |-> h.needsWait \/ pass,
      signal |-> IF sig = <<>> THEN signal ELSE sig = sTrue,
      lastUpdates |-> IF flush /\ connected THEN now ELSE lastUpdates,
      flushTrace |-> flushLocked(connected),
      passMsgs |-> passMsgs,
      flushed |-> flush /\ connected,
      m_updatedMessages |-> flushQueue(connected),
      pubs |-> uptimePubs
               \o (IF globals THEN globalDefinitions(1) ELSE <<>>)
               \o passPubs
               \o (IF sig = <<>> THEN <<>> ELSE <<publishTopic(signalTopic, sig, TRUE)>>)
               \o (IF flush /\ connected THEN flushPubs(flushMessages, 1) ELSE <<>>)]

\* the scan status cleared before the signal is withdrawn
finalPublishes_ScanFirst ==
  <<publishTopic(m_globalTopic \o sScan, <<>>, TRUE),
    publishTopic(signalTopic, sFalse, TRUE)>>

\* run: the two publishes made after the loop was left
finalPublishes ==
  <<publishTopic(signalTopic, sFalse, TRUE),
    publishTopic(m_globalTopic \o sScan, <<>>, TRUE)>>

\* the time when the worker is started and the last time looked at
InitialClock == 100
MaxTime == 124
\* a time before the start of the worker, shown after the clock was set back
SkewClock == InitialClock - 8
\* the time the catalog was loaded at
CatalogLoadTime == InitialClock - 16
\* the seconds that pass during the blocking calls of one iteration
\* (mosquitto_loop, Wait): below and above both intervals of the code
Elapsed == {0, 8, 16}

\* the times the clock may show in the next iteration: it advanced, or it was
\* set back
NextClocks ==
  {clock + e : e \in {d \in Elapsed : clock + d <= MaxTime}}
  \cup (IF clock >= InitialClock THEN {SkewClock} ELSE {})

\* the publish and subscribe calls made by the callback of one mosquitto_loop
callbackCalls(lo, isRunning) ==
  CASE lo.cb = "connack_ok" -> on_connect(TRUE, isRunning)
    [] lo.cb = "connack_refused" -> on_connect(FALSE, isRunning)
    [] OTHER -> [pubs |-> <<>>, subs |-> <<>>]

-----------------------------------------------------------------------------
(* Specification Spec: life cycle of the handler and its worker             *)

Init ==
  /\ StoreIdle
  /\ TplIdle
  /\ DispIdle
  /\ g_topicReplacer = DefaultTopicReplacer
  /\ g_retain = FALSE
  /\ g_ignoreInvalidParams \in BOOLEAN
  /\ g_onlyChanges = FALSE
  /\ \E integration \in BOOLEAN :
       /\ m_hasDefinitionTopic = integration
       /\ m_hasGlobalDefinition = integration
       /\ m_subscribeConfigRestartTopic = IF integration THEN sRestartTopic ELSE <<>>
  /\ m_subscribeConfigRestartPayload = <<>>
  /\ msgCreateTime = [m \in MessageIds |-> CatalogLoadTime]
  /\ lastChangeTime = [m \in MessageIds |-> 0]
  /\ m_updatedMessages = {}
  /\ life = "init"
  /\ worker = "none"
  /\ running = FALSE
  /\ m_mosquitto = FALSE
  /\ m_connected = FALSE
  /\ m_initialConnectFailed = FALSE
  /\ m_lastErrorLogTime = 0
  /\ will = NoWill
  /\ link = "none"
  /\ clock = InitialClock
  /\ start = 0
  /\ lastTaskRun = 0
  /\ allowReconnect = FALSE
  /\ signal = FALSE
  /\ lastUpdates = 0
  /\ pubs = <<>>
  /\ subs = <<>>
  /\ connCall = "none"
  /\ connRet = "none"
  /\ cbSeen = "none"
  /\ logged = <<>>
  /\ flushTrace = <<>>
  /\ definedMsgs = {}
  /\ changedMsgs = {}
  /\ periodicFired = FALSE
  /\ initialRet = "none"
  /\ connectSucceeded = FALSE
  /\ m_definitionsSince = 0

\* MqttHandler::MqttHandler: instantiated tells whether mosquitto_lib_init and
\* mosquitto_new succeeded, ret is what the initial mosquitto_connect returns
Construct ==
  /\ life = "init"
  /\ \E instantiated \in BOOLEAN :
     \E ret \in (IF instantiated THEN ConnectResults ELSE {"none"}) :
       LET fatal == instantiated /\ ctorFatal(ret)
           alive == instantiated /\ ~fatal
           failed == alive /\ ret # MOSQ_ERR_SUCCESS
       IN /\ m_mosquitto' = alive
          /\ will' = IF instantiated THEN willMessage ELSE NoWill
          /\ connCall' = IF instantiated THEN "connect" ELSE "none"
          /\ connRet' = ret
          /\ m_connected' = (alive /\ ret = MOSQ_ERR_SUCCESS)
          /\ m_initialConnectFailed' = (failed /\ ctorInitialConnectFailed(ret))
          /\ initialRet' = ret
          /\ link' = IF alive THEN linkAfterConnect(ret) ELSE "none"
          /\ logged' = IF fatal THEN <<"unable to connect (invalid parameters)">>
                       ELSE IF failed THEN check(ret, "unable to connect, retrying")
                       ELSE <<>>
  /\ life' = "constructed"
  /\ m_definitionsSince' = 0
  /\ flushTrace' = <<>>
  /\ definedMsgs' = definedMsgs
  /\ changedMsgs' = changedMsgs
  /\ pubs' = <<>>
  /\ subs' = <<>>
  /\ cbSeen' = "none"
  /\ UNCHANGED <<storeVars, tplVars, cfgVars, dispVars, catVars, runVars, worker, running,
                 m_lastErrorLogTime, clock, periodicFired, connectSucceeded>>

\* MqttHandler::start, and the prologue of run in the new thread
Start ==
  /\ life = "constructed"
  /\ life' = "started"
  /\ IF m_mosquitto
     THEN /\ worker' = "loop"
          /\ running' = TRUE
          /\ start' = clock
          /\ lastTaskRun' = clock
          /\ allowReconnect' = FALSE
          /\ signal' = FALSE
          /\ lastUpdates' = 0
     ELSE UNCHANGED <<worker, running, runVars>>
  /\ pubs' = <<>>
  /\ subs' = <<>>
  /\ connCall' = "none"
  /\ connRet' = "none"
  /\ cbSeen' = "none"
  /\ logged' = <<>>
  /\ flushTrace' = <<>>
  /\ definedMsgs' = definedMsgs
  /\ changedMsgs' = changedMsgs
  /\ UNCHANGED <<storeVars, tplVars, cfgVars, dispVars, catVars, m_definitionsSince, m_mosquitto,
                 m_connected, m_initialConnectFailed, m_lastErrorLogTime, will, link,
                 clock, periodicFired, initialRet, connectSucceeded>>

\* one pass through the loop of MqttHandler::run; stop tells that join() was
\* called while the worker waited in mosquitto_loop
Iteration(clocks, outcomes, connects, signals, stops, payloads) ==
  /\ running
  /\ \E now \in clocks, lo \in outcomes, hasSignal \in signals, stop \in stops :
     \E cr \in (IF mayReconnect(lo.ret, allowReconnect) THEN connects ELSE {"none"}) :
     \E h \in {handleTraffic(allowReconnect, lo, cr, now)} :
     \E cb \in {callbackCalls(lo, ~stop)} :
     \E data \in (IF lo.cb = "restart" THEN payloads ELSE {<<>>}) :
     \E in \in {IF lo.cb = "restart"
                THEN on_message(m_subscribeConfigRestartTopic, data, ~stop)
                ELSE NoOutcome(FALSE)} :
     \E b \in {runBody(h, in.m_definitionsSince, now, hasSignal)} :
       /\ inTopic' = (IF lo.cb = "restart" THEN m_subscribeConfigRestartTopic ELSE <<>>)
       /\ inData' = data
       /\ findCalls' = in.findCalls
       /\ busCalls' = in.busCalls
       /\ prioCalls' = in.prioCalls
       /\ pubMsgs' = in.pubMsgs
       /\ errLogged' = in.errLogged
       /\ busRet' = "none"
       /\ pollPrio' = in.pollPrio
       /\ life' = (IF stop THEN "joining" ELSE life)
       /\ running' = ~stop
       /\ clock' = now
       /\ link' = h.link
       /\ m_connected' = h.m_connected
       /\ m_initialConnectFailed' = h.m_initialConnectFailed
       /\ m_lastErrorLogTime' = h.m_lastErrorLogTime
       /\ connCall' = h.connCall
       /\ connRet' = h.connRet
       /\ connectSucceeded' = (connectSucceeded
                               \/ (h.connCall = "connect" /\ h.connRet = MOSQ_ERR_SUCCESS))
       /\ cbSeen' = lo.cb
       /\ subs' = cb.subs
       /\ pubs' = cb.pubs \o b.pubs
       /\ logged' = h.logged \o publishLogs(Len(cb.pubs), lo.link)
                             \o publishLogs(Len(b.pubs), h.link)
       /\ allowReconnect' = b.allowReconnect
       /\ periodicFired' = b.periodicFired
       /\ lastTaskRun' = b.lastTaskRun
       /\ m_definitionsSince' = b.m_definitionsSince
       /\ signal' = b.signal
       /\ lastUpdates' = b.lastUpdates
       /\ flushTrace' = b.flushTrace
       /\ definedMsgs' = definedMsgs \cup {b.passMsgs[i] : i \in 1..Len(b.passMsgs)}
       /\ changedMsgs' = (IF b.flushed THEN {} ELSE changedMsgs)
       /\ m_updatedMessages' = b.m_updatedMessages
  /\ UNCHANGED <<storeVars, tplVars, cfgVars, msgCreateTime, lastChangeTime, worker,
                 m_mosquitto, will, start, initialRet>>

\* the iteration with everything the clock, the client, the bus and a
\* concurrent join() may do
RunIteration ==
  /\ worker = "loop"
  /\ Iteration(NextClocks, LoopOutcomes(link), ConnectResults, BOOLEAN,
               {FALSE} \cup {life = "started"}, {<<>>})

\* ~MqttHandler calls join(): the worker is told to stop
Join ==
  /\ life \in {"constructed", "started"}
  /\ life' = "joining"
  /\ running' = FALSE
  /\ pubs' = <<>>
  /\ subs' = <<>>
  /\ connCall' = "none"
  /\ connRet' = "none"
  /\ cbSeen' = "none"
  /\ logged' = <<>>
  /\ flushTrace' = <<>>
  /\ definedMsgs' = definedMsgs
  /\ changedMsgs' = changedMsgs
  /\ UNCHANGED <<storeVars, tplVars, cfgVars, dispVars, catVars, runVars, m_definitionsSince,
                 worker, m_mosquitto, m_connected, m_initialConnectFailed,
                 m_lastErrorLogTime, will, link, clock, periodicFired,
                 initialRet, connectSucceeded>>

\* run leaves its loop: the final publishes
RunExit ==
  /\ worker = "loop"
  /\ ~running
  /\ worker' = "done"
  /\ pubs' = finalPublishes
  /\ logged' = publishLogs(2, link)
  /\ flushTrace' = <<>>
  /\ definedMsgs' = definedMsgs
  /\ changedMsgs' = changedMsgs
  /\ subs' = <<>>
  /\ connCall' = "none"
  /\ connRet' = "none"
  /\ cbSeen' = "none"
  /\ UNCHANGED <<storeVars, tplVars, cfgVars, dispVars, catVars, runVars, m_definitionsSince,
                 life, running, m_mosquitto, m_connected, m_initialConnectFailed,
                 m_lastErrorLogTime, will, link, clock, periodicFired,
                 initialRet, connectSucceeded>>

\* WaitThread::join returns: no thread was started or the thread has left run
joined == worker # "loop"

\* ~MqttHandler after join() returned: mosquitto_destroy
Destroy ==
  /\ life = "joining"
  /\ joined
  /\ life' = "destroyed"
  /\ m_mosquitto' = FALSE
  /\ link' = "none"
  /\ pubs' = <<>>
  /\ subs' = <<>>
  /\ connCall' = "none"
  /\ connRet' = "none"
  /\ cbSeen' = "none"
  /\ logged' = <<>>
  /\ flushTrace' = <<>>
  /\ definedMsgs' = definedMsgs
  /\ changedMsgs' = changedMsgs
  /\ UNCHANGED <<storeVars, tplVars, cfgVars, dispVars, catVars, runVars, m_definitionsSince,
                 worker, running, m_connected, m_initialConnectFailed,
                 m_lastErrorLogTime, will, clock, periodicFired,
                 initialRet, connectSucceeded>>

Next ==
  Construct \/ Start \/ RunIteration \/ Join \/ RunExit \/ Destroy

Spec == Init /\ [][Next]_vars

-----------------------------------------------------------------------------
(* Claims about the connection engine                                       *)

\* the last step was a pass through the loop of run (of a started worker)
\* in which a connect call was made
IterationConnected == worker = "loop" /\ life # "constructed" /\ connCall # "none"

\* the constructor's connect failed although the handle could be created
InitialConnectFailed == initialRet \notin {"none", MOSQ_ERR_SUCCESS}

\* C5: a loop iteration of run makes a connect or reconnect call only while the
\* bridge is not connected and only if the periodic-task branch fired in the
\* iteration right before it; otherwise no call is made, whatever the drain of
\* the event loop returned.
C5_ReconnectOnlyAfterPeriodicTask ==
  [][(worker = "loop" /\ running /\ connCall' # "none")
       => (periodicFired /\ ~m_connected)]_vars

\* a reconnect was made by an iteration, after the loop returned a lost connection
C5_Witness ==
  /\ IterationConnected
  /\ connCall = "reconnect"
  /\ connRet = MOSQ_ERR_SUCCESS
  /\ ~periodicFired

\* C6 as claimed: a failed initial connect leaves the bridge awaiting the initial
\* connect only if the failure is about the parameters and ignore-invalid-params
\* is set; any other failure destroys the handle and no worker is ever started.
C6_FatalUnlessIgnoredInvalid ==
  (life # "init" /\ InitialConnectFailed) =>
    IF initialRet = MOSQ_ERR_INVAL /\ g_ignoreInvalidParams
    THEN life = "constructed" => (m_mosquitto /\ m_initialConnectFailed)
    ELSE ~m_mosquitto /\ worker = "none"

\* C6 amended: a failed initial connect is fatal (handle destroyed, worker never
\* started, no later connect call) exactly when the failure is about the
\* parameters and ignore-invalid-params is not set; after any other failure the
\* handle is kept, the bridge is not connected, and it awaits the initial connect
\* exactly when ignore-invalid-params is set.
C6_FatalOnlyForUnignoredInvalid ==
  (life # "init" /\ InitialConnectFailed) =>
    IF initialRet = MOSQ_ERR_INVAL /\ ~g_ignoreInvalidParams
    THEN /\ ~m_mosquitto
         /\ worker = "none"
         /\ life # "constructed" => connCall = "none"
    ELSE /\ life = "constructed" =>
              /\ m_mosquitto
              /\ ~m_connected
              /\ m_initialConnectFailed = g_ignoreInvalidParams
         /\ life = "started" => worker = "loop"

\* the initial connect failed for another reason than the parameters, without
\* ignore-invalid-params, and the worker runs
C6_Witness ==
  /\ initialRet = MOSQ_ERR_ERRNO
  /\ ~g_ignoreInvalidParams
  /\ life = "started"
  /\ worker = "loop"
  /\ m_mosquitto
  /\ ~m_initialConnectFailed

\* C7: after an initial connect that failed with ignore-invalid-params set, the
\* iterations of run call mosquitto_connect, never mosquitto_reconnect, as long
\* as no such call has returned success, and mosquitto_reconnect afterwards; the
\* handle survives every failed retry.
C7_InitialConnectRetried ==
  [][(worker = "loop" /\ running /\ InitialConnectFailed /\ g_ignoreInvalidParams)
       => /\ connCall' = "connect" => ~connectSucceeded
          /\ connCall' = "reconnect" => connectSucceeded
          /\ m_mosquitto']_vars

\* the retried initial connect has succeeded earlier and the connection, lost
\* again, is now re-established with mosquitto_reconnect
C7_Witness ==
  /\ IterationConnected
  /\ InitialConnectFailed
  /\ g_ignoreInvalidParams
  /\ connectSucceeded
  /\ connCall = "reconnect"

\* the calls notifyConnected is to make
ConnectedPubs ==
  <<Pub(m_globalTopic \o sVersion, VersionData, TRUE),
    Pub(m_globalTopic \o sRunning, sTrue, TRUE)>>

ConnectedSubs ==
  <<sEbusd \o <<"/", "#">> >>
  \o (IF m_subscribeConfigRestartTopic # <<>>
      THEN <<m_subscribeConfigRestartTopic>> ELSE <<>>)

\* C8: whenever mosquitto_loop invoked the connect callback with rc = 0 while
\* the handler was running, the step first published version and running="true",
\* both retained, and subscribed to <prefix># and, iff configured, to the
\* config-restart topic; after a callback with rc # 0 nothing was published or
\* subscribed.
C8_AnnounceOnConnect ==
  /\ (cbSeen = "connack_ok" /\ life = "started") =>
       /\ Len(pubs) >= 2
       /\ SubSeq(pubs, 1, 2) = ConnectedPubs
       /\ subs = ConnectedSubs
  /\ cbSeen = "connack_refused" =>
       /\ subs = <<>>
       /\ \A i \in 1..Len(pubs), j \in 1..Len(ConnectedPubs) : pubs[i] # ConnectedPubs[j]

\* the callback reported success after a reconnect of an established session,
\* with a config-restart topic configured
C8_Witness ==
  /\ cbSeen = "connack_ok"
  /\ life = "started"
  /\ Len(subs) = 2
  /\ m_definitionsSince > 1

\* C9: the worker leaves its loop only after join() was called and the iteration
\* was finished, it then publishes signal="false" retained and an empty retained
\* scan status while the handle exists, the handle is destroyed only after the
\* worker has left run, and nothing happens (in particular no publish) after
\* the handle was destroyed.
C9_FinalPublishesBeforeDestroy ==
  [][/\ (worker = "loop" /\ worker' = "done") =>
          /\ ~running
          /\ m_mosquitto /\ m_mosquitto'
          /\ pubs' = <<Pub(sEbusd \o <<"/">> \o sGlobalSlash \o sSignal, sFalse, TRUE),
                       Pub(sEbusd \o <<"/">> \o sGlobalSlash \o sScan, <<>>, TRUE)>>
     /\ (life = "joining" /\ life' = "destroyed") =>
          /\ worker # "loop"
          /\ pubs' = <<>>
     /\ life # "destroyed"]_vars

\* the handle of a worker that ran was destroyed
C9_Witness ==
  /\ life = "destroyed"
  /\ worker = "done"
  /\ ~m_mosquitto

\* a publish of <prefix>global/running = "false"
IsNotRunningPub(p) == p.topic = m_globalTopic \o sRunning /\ p.data = sFalse

\* C10 as claimed: when the worker has left run at shutdown, the bridge has
\* published running="false" on the way.
C10_PublishesNotRunning ==
  (life = "joining" /\ worker = "done") =>
    \E i \in 1..Len(pubs) : IsNotRunningPub(pubs[i])

\* C10 amended: the bridge never publishes running="false": the shutdown path
\* publishes signal="false" and the empty scan status only, and
\* running="false" (retained) is what the constructor registered as the last
\* will, which is left to the broker.
C10_NotRunningIsLastWillOnly ==
  /\ \A i \in 1..Len(pubs) : ~IsNotRunningPub(pubs[i])
  /\ (life = "joining" /\ worker = "done") =>
       [i \in 1..Len(pubs) |-> pubs[i].topic]
         = <<m_globalTopic \o sSignal, m_globalTopic \o sScan>>
  /\ (life # "init" /\ initialRet # "none") =>
       will = [topic |-> m_globalTopic \o sRunning, data |-> sFalse, retain |-> TRUE]

\* the worker has made its final publishes, the handle still exists
C10_Witness ==
  /\ life = "joining"
  /\ worker = "done"
  /\ m_mosquitto
  /\ Len(pubs) = 2
  /\ will.data = sFalse

\* C11: error lines for client errors are rate-limited: a step logs at most one
\* line, whether the error came from the drain of the event loop or from publish
\* calls, and when two steps in a row log, more than 10 seconds lie between them.
C11_ErrorLogRateLimited ==
  [][logged' # <<>> =>
       /\ Len(logged') = 1
       /\ (logged # <<>> /\ worker = "loop") => clock' > clock + ErrorLogInterval]_vars

\* C33: when the connect callback reports a refused connection (rc != 0) the
\* bridge is marked not connected: the tick that saw the callback ends with
\* m_connected false and publishes nothing (no uptime, definitions, signal or
\* changed messages).
C33_RefusedMarksDisconnected ==
  cbSeen = "connack_refused" => (~m_connected /\ pubs = <<>>)

\* the publish calls on the signal topic among ps
signalPubs(ps) == SelectSeq(ps, LAMBDA p : p.topic = signalTopic)

\* the step is a tick of the worker loop, and one in which the bridge went from
\* not connected to connected
LoopTick == worker = "loop" /\ worker' = "loop"
ReconnectTick == LoopTick /\ ~m_connected /\ m_connected'

\* C34: inside the worker loop the signal topic is published only in a tick
\* with a reconnection or with the periodic task run while connected; a
\* reconnection tick always announces the current signal state, any other tick
\* only a state that differs from the last recorded one, and the recorded state
\* changes only with a publish, so two publishes of the same value in a row are
\* separated by a reconnection.
C34_SignalOnChangeOrReconnect ==
  [][LoopTick =>
       /\ Len(signalPubs(pubs')) <= 1
       /\ signalPubs(pubs') # <<>> =>
            /\ ReconnectTick \/ (periodicFired' /\ m_connected')
            /\ signalPubs(pubs')[1] = Pub(signalTopic, IF signal' THEN sTrue ELSE sFalse, TRUE)
            /\ ~ReconnectTick => signal' # signal
       /\ ReconnectTick => signalPubs(pubs') # <<>>
       /\ signal' # signal => signalPubs(pubs') # <<>>]_vars

\* a tick that reconnected while the bus had a signal that was already
\* recorded: "true" is announced again
C34_Witness ==
  /\ worker = "loop"
  /\ connCall = "reconnect"
  /\ connRet = MOSQ_ERR_SUCCESS
  /\ m_connected
  /\ signal
  /\ signalPubs(pubs) = <<Pub(signalTopic, sTrue, TRUE)>>
  /\ lastTaskRun > InitialClock + TaskInterval + 1

-----------------------------------------------------------------------------
(* Specification SpecFlush: bus updates queued and flushed by the worker    *)

\* the messages the bus handler reports as updated
UpdatedIds == {1, 4}

\* the handler right after construction (connection requested) and start
InitFlush ==
  /\ StoreIdle
  /\ TplIdle
  /\ DispIdle
  /\ g_topicReplacer \in {DefaultTopicReplacer, TopicOption(tByField)}
  /\ g_retain = FALSE
  /\ g_ignoreInvalidParams = FALSE
  /\ g_onlyChanges \in BOOLEAN
  /\ m_hasDefinitionTopic = FALSE
  /\ m_hasGlobalDefinition = FALSE
  /\ m_subscribeConfigRestartTopic = <<>>
  /\ m_subscribeConfigRestartPayload = <<>>
  /\ msgCreateTime = [m \in MessageIds |-> CatalogLoadTime]
  /\ lastChangeTime = [m \in MessageIds |-> 0]
  /\ m_updatedMessages = {}
  /\ life = "started"
  /\ worker = "loop"
  /\ running = TRUE
  /\ m_mosquitto = TRUE
  /\ m_connected = TRUE
  /\ m_initialConnectFailed = FALSE
  /\ m_lastErrorLogTime = 0
  /\ will = willMessage
  /\ link = "pending"
  /\ clock = InitialClock
  /\ start = InitialClock
  /\ lastTaskRun = InitialClock
  /\ allowReconnect = FALSE
  /\ signal = FALSE
  /\ lastUpdates = 0
  /\ pubs = <<>>
  /\ subs = <<>>
  /\ connCall = "none"
  /\ connRet = "none"
  /\ cbSeen = "none"
  /\ logged = <<>>
  /\ flushTrace = <<>>
  /\ definedMsgs = {}
  /\ changedMsgs = {}
  /\ periodicFired = FALSE
  /\ initialRet = MOSQ_ERR_SUCCESS
  /\ connectSucceeded = FALSE
  /\ m_definitionsSince = 0

\* DataSink::notifyUpdate, called by the bus handler after it stored new data
\* of a message: the message is queued for the next flush; changed tells
\* whether the data differs from what was stored before (the first data of a
\* message always does)
NotifyUpdate ==
  /\ life = "started"
  /\ \E m \in UpdatedIds, changed \in BOOLEAN :
       /\ m \notin m_updatedMessages
       /\ changed \/ lastChangeTime[m] > 0
       /\ m_updatedMessages' = m_updatedMessages \cup {m}
       /\ lastChangeTime' = IF changed THEN [lastChangeTime EXCEPT ![m] = clock]
                            ELSE lastChangeTime
       /\ changedMsgs' = IF changed THEN changedMsgs \cup {m} ELSE changedMsgs
  /\ pubs' = <<>>
  /\ subs' = <<>>
  /\ connCall' = "none"
  /\ connRet' = "none"
  /\ cbSeen' = "none"
  /\ logged' = <<>>
  /\ flushTrace' = <<>>
  /\ definedMsgs' = definedMsgs
  /\ UNCHANGED <<storeVars, tplVars, cfgVars, dispVars, msgCreateTime, runVars, m_definitionsSince,
                 life, worker, running, m_mosquitto, m_connected,
                 m_initialConnectFailed, m_lastErrorLogTime, will, link, clock,
                 periodicFired, initialRet, connectSucceeded>>

\* the iteration while the clock only advances, the bus has a signal, the
\* event loop reports nothing but success or a lost connection and nobody joins
FlushIteration ==
  /\ worker = "loop"
  /\ Iteration({clock + e : e \in {d \in Elapsed : clock + d <= MaxTime}},
               {lo \in LoopOutcomes(link) :
                  lo.ret \in {MOSQ_ERR_SUCCESS, MOSQ_ERR_NO_CONN, MOSQ_ERR_CONN_LOST}},
               {MOSQ_ERR_SUCCESS}, {TRUE}, {FALSE}, {<<>>})

NextFlush == FlushIteration \/ NotifyUpdate

SpecFlush == InitFlush /\ [][NextFlush]_vars

\* the calls of trace before position i that took the catalog lock, minus
\* those that released it
RECURSIVE LocksHeld(_, _)
LocksHeld(trace, i) ==
  IF i <= 1 THEN 0
  ELSE LocksHeld(trace, i - 1)
       + (CASE trace[i - 1] = "lock" -> 1 [] trace[i - 1] = "unlock" -> -1 [] OTHER -> 0)

\* C12: during the flush the catalog lock is held around catalog lookups only:
\* no publish call is made while the lock is held.
C12_NoPublishUnderCatalogLock ==
  \A i \in 1..Len(flushTrace) :
    flushTrace[i] = "publish" => LocksHeld(flushTrace, i) = 0

\* the last step was an iteration of run that flushed the queued updates to
\* the broker
FlushStep == m_updatedMessages # {} /\ m_updatedMessages' = {} /\ m_connected'

\* the publish calls ps include one made by publishMessage for message m
publishedBy(ps, m) ==
  \E i \in 1..Len(ps), j \in 1..Len(publishMessage(m, FALSE, 0)) :
    ps[i] = publishMessage(m, FALSE, 0)[j]

\* C30: with publish-only-on-change enabled, a flush while connected publishes
\* a notified message that has data if and only if it has changed since the
\* previous flush, also when it changed in the second of the previous flush.
C30_ChangedIffPublished ==
  [][(g_onlyChanges /\ FlushStep) =>
       \A m \in m_updatedMessages :
         lastChangeTime[m] > 0 => (publishedBy(pubs', m) <=> m \in changedMsgs)]_vars

\* the last step was an iteration of run (a notification only adds to the
\* queue)
TickStep == ~(m_updatedMessages \subseteq m_updatedMessages' /\ m_updatedMessages' # m_updatedMessages)

\* C31: a tick that finds the queue of notified messages non-empty leaves it
\* empty; when the bridge is not connected nothing of the queue is published,
\* and no tick publishes a message that was not notified since the tick before.
C31_DisconnectedFlushDiscards ==
  [][TickStep =>
       /\ m_updatedMessages # {} => m_updatedMessages' = {}
       /\ ~m_connected' => \A m \in MessageIds : ~publishedBy(pubs', m)
       /\ \A m \in MessageIds : publishedBy(pubs', m) => m \in m_updatedMessages]_vars

\* a tick found two notified messages while the bridge was not connected and
\* cleared the queue under the catalog lock
C31_Witness ==
  /\ ~m_connected
  /\ flushTrace = <<"lock", "clear", "unlock">>
  /\ m_updatedMessages = {}
  /\ pubs = <<>>
  /\ lastChangeTime[1] > 0 /\ lastChangeTime[4] > 0

-----------------------------------------------------------------------------
(* Specification SpecDefinitions: the definition pass over a catalog that   *)
(* grows while the worker runs, and the config-restart topic                *)

\* the last time looked at
DefinitionsMaxTime == 132

\* the messages the catalog holds when the worker starts; the others are
\* loaded later (scan results)
LoadedAtStart == {1, 2, 3}

\* the poll priorities of the catalog messages
CatalogPriorities == <<1, 0, 0, 3, 2>>

\* the integration file sets filter-priority = 2, or no filter at all
FilterSettings == {<<>>, [k \in {sFilterPriority} |-> <<"2">>]}

\* "restart", a config-restart topic of one level
sRestartPlain == <<"r","e","s","t","a","r","t">>

\* the handler connected and started, the integration file sets the definition
\* topics and the config-restart topic
InitDefinitions ==
  /\ TplIdle
  /\ m_constants \in FilterSettings
  /\ m_replacers = <<>>
  /\ stOp = NoOp
  /\ intLines = <<>>
  /\ g_topicReplacer = DefaultTopicReplacer
  /\ g_retain = FALSE
  /\ g_ignoreInvalidParams = FALSE
  /\ g_onlyChanges = FALSE
  /\ m_hasDefinitionTopic = TRUE
  /\ m_hasGlobalDefinition = TRUE
  /\ m_subscribeConfigRestartTopic \in {sRestartTopic, sRestartPlain}
  /\ m_subscribeConfigRestartPayload \in {<<>>, sTrue}
  /\ pollPrio = CatalogPriorities
  /\ inTopic = <<>>
  /\ inData = <<>>
  /\ findCalls = <<>>
  /\ busCalls = <<>>
  /\ prioCalls = <<>>
  /\ pubMsgs = <<>>
  /\ errLogged = FALSE
  /\ busRet = "none"
  /\ msgCreateTime = [m \in MessageIds |-> IF m \in LoadedAtStart THEN CatalogLoadTime ELSE 0]
  /\ lastChangeTime = [m \in MessageIds |-> 0]
  /\ m_updatedMessages = {}
  /\ life = "started"
  /\ worker = "loop"
  /\ running = TRUE
  /\ m_mosquitto = TRUE
  /\ m_connected = TRUE
  /\ m_initialConnectFailed = FALSE
  /\ m_lastErrorLogTime = 0
  /\ will = willMessage
  /\ link = "up"
  /\ clock = InitialClock
  /\ start = InitialClock
  /\ lastTaskRun = InitialClock
  /\ allowReconnect = FALSE
  /\ signal = FALSE
  /\ lastUpdates = 0
  /\ pubs = <<>>
  /\ subs = <<>>
  /\ connCall = "none"
  /\ connRet = "none"
  /\ cbSeen = "none"
  /\ logged = <<>>
  /\ flushTrace = <<>>
  /\ definedMsgs = {}
  /\ changedMsgs = {}
  /\ periodicFired = FALSE
  /\ initialRet = MOSQ_ERR_SUCCESS
  /\ connectSucceeded = FALSE
  /\ m_definitionsSince = 0

\* Message::Message, called while the configuration of a scanned device is
\* loaded: the message enters the catalog with the current time as its
\* creation time
CreateMessage ==
  /\ life = "started"
  /\ \E m \in MessageIds :
       /\ msgCreateTime[m] = 0
       /\ msgCreateTime' = [msgCreateTime EXCEPT ![m] = clock]
  /\ pubs' = <<>>
  /\ subs' = <<>>
  /\ connCall' = "none"
  /\ connRet' = "none"
  /\ cbSeen' = "none"
  /\ logged' = <<>>
  /\ flushTrace' = <<>>
  /\ definedMsgs' = definedMsgs
  /\ changedMsgs' = changedMsgs
  /\ UNCHANGED <<storeVars, tplVars, cfgVars, dispVars, lastChangeTime, m_updatedMessages,
                 runVars, m_definitionsSince, life, worker, running, m_mosquitto,
                 m_connected, m_initialConnectFailed, m_lastErrorLogTime, will, link,
                 clock, periodicFired, initialRet, connectSucceeded>>

\* the iteration while the bridge stays connected: the clock only advances, the
\* event loop returns success and may deliver a message on the config-restart
\* topic, with an empty payload or with "true"
DefinitionsIteration ==
  /\ worker = "loop"
  /\ Iteration({clock + e : e \in {d \in Elapsed : clock + d <= DefinitionsMaxTime}},
               {lo \in LoopOutcomes(link) : lo.ret = MOSQ_ERR_SUCCESS},
               {MOSQ_ERR_SUCCESS}, {TRUE}, {FALSE}, {<<>>, sTrue})

NextDefinitions == DefinitionsIteration \/ CreateMessage

SpecDefinitions == InitDefinitions /\ [][NextDefinitions]_vars

\* the last step was an iteration of run that made a definition pass
PassStep ==
  /\ msgCreateTime' = msgCreateTime
  /\ periodicFired'
  /\ m_connected'
  /\ m_hasDefinitionTopic

\* the messages of the catalog that pass the filters
Definable == {m \in MessageIds : msgCreateTime[m] > 0 /\ passesFilters(m)}

\* C28: with a definition topic configured and the bridge connected, every
\* message of the catalog that passes the filters has had its definition
\* published once a definition pass has run after its creation, also when it
\* was created in the second in which the pass before finished.
C28_EveryMessageDefined ==
  [][PassStep => Definable \subseteq definedMsgs']_vars

\* the publish call carries a definition
isDefinition(p) == p.topic # <<>> /\ p.topic[1] = DefinitionData[1]

\* the last step was an iteration of run whose event loop delivered a message
\* on the config-restart topic
RestartStep == msgCreateTime' = msgCreateTime /\ cbSeen' = "restart"

\* the payload of that message asks for a restart
RestartMatches ==
  m_subscribeConfigRestartPayload = <<>> \/ inData' = m_subscribeConfigRestartPayload

\* a restart of the definitions was asked for and no periodic task has run
\* since
RestartPending == m_definitionsSince = 0 \/ (RestartStep /\ RestartMatches)

\* C29: after a message on the config-restart topic with a matching payload (any
\* payload if none is configured) the next periodic task run republishes the six
\* global definitions and the definitions of all messages passing the filters;
\* a message on that topic triggers no get, set or list, and one with another
\* payload changes nothing.
C29_RestartRepublishesAll ==
  [][/\ (RestartStep /\ RestartMatches /\ ~periodicFired') => m_definitionsSince' = 0
     /\ (msgCreateTime' = msgCreateTime /\ m_definitionsSince = 0 /\ ~periodicFired')
          => m_definitionsSince' = 0
     /\ (PassStep /\ RestartPending) =>
          SelectSeq(pubs', isDefinition)
            = globalDefinitions(1) \o definitionPubs(SelectSeq(findAll, passesFilters))
     /\ RestartStep =>
          /\ findCalls' = <<>> /\ busCalls' = <<>> /\ prioCalls' = <<>>
          /\ pubMsgs' = <<>> /\ ~errLogged' /\ pollPrio' = pollPrio
     /\ (RestartStep /\ ~RestartMatches) =>
          /\ m_definitionsSince' = (IF periodicFired' THEN clock' ELSE m_definitionsSince)
          /\ m_definitionsSince # 0 =>
               SelectSeq(pubs', isDefinition)
                 = definitionPubs(SelectSeq(findAll,
                     LAMBDA m : /\ periodicFired'
                                /\ msgCreateTime[m] > m_definitionsSince
                                /\ passesFilters(m)))]_vars

-----------------------------------------------------------------------------
(* Specification SpecDefault: ensureDefault applied to a parsed template,   *)
(* then rendered                                                            *)

\* "%circuit/%circuit"
tTwice == <<"%">> \o sCircuit \o <<"/", "%">> \o sCircuit
\* "ebusd/%name"
tNameOnly == sEbusd \o <<"/", "%">> \o sName
\* "ebusd/%circuit"
tCircuitOnly == sEbusd \o <<"/", "%">> \o sCircuit
\* "ebusd/%name/%name"
tNameTwice == tNameOnly \o <<"/", "%">> \o sName
\* "ebusd/%foo"
tUnknown == sEbusd \o <<"/", "%", "f", "o", "o">>

RawStrings == TemplateStrings \cup {<<>>, tTwice, tNameOnly, tCircuitOnly, tNameTwice, tUnknown}

\* what MqttReplacer::parse leaves in m_parts when it succeeds, for every
\* choice of its onlyKnown and noKnownDuplicates arguments
ParsedTemplates ==
  {r.parts : r \in {q \in {parse([parts |-> <<>>, emptyIfMissing |-> FALSE], t, ok, nd, FALSE) :
                              t \in RawStrings, ok \in BOOLEAN, nd \in BOOLEAN} : q.ret}}

InitDefault ==
  /\ TplCallIdle
  /\ StoreIdle
  /\ tplParts \in ParsedTemplates
  /\ tplValues \in ValueSets
  /\ tplRendered = <<>>
  /\ tplMatch = NoMatch
  /\ tplPc = "raw"
  /\ CfgDefault
  /\ DispIdle
  /\ EngineIdle
  /\ m_definitionsSince = 0
  /\ pubs = <<>>

\* MqttReplacer::ensureDefault on the parsed template
TplEnsureDefault ==
  /\ tplPc = "raw"
  /\ tplParts' = ensureDefault(tplParts)
  /\ tplPc' = "parsed"
  /\ UNCHANGED <<tplCallVars, storeVars, tplValues, tplRendered, tplMatch, cfgVars, dispVars,
                 m_definitionsSince, engineVars, pubs>>

NextDefault == TplEnsureDefault \/ TplRender

SpecDefault == InitDefault /\ [][NextDefault]_vars

\* how many parts of the template are the field
RECURSIVE FieldCount(_, _, _)
FieldCount(parts, field, i) ==
  IF i > Len(parts) THEN 0
  ELSE (IF parts[i].second >= 0 /\ parts[i].first = field THEN 1 ELSE 0)
       + FieldCount(parts, field, i + 1)

ExactlyOnce(parts) ==
  FieldCount(parts, sCircuit, 1) = 1 /\ FieldCount(parts, sName, 1) = 1

\* C19 as stated: after ensureDefault, whatever a successful parse left in the
\* template, the template holds the circuit field exactly once and the name
\* field exactly once.
C19_DefaultedExactlyOnce ==
  tplPc # "raw" => ExactlyOnce(tplParts)

\* C19: ensureDefault applied to a template that is empty or holds neither
\* circuit nor name more than once (every parse with noKnownDuplicates) yields
\* a template with the circuit field exactly once and the name field exactly once.
C19_DefaultedOnceUnlessDuplicate ==
  [][(tplPc = "raw" /\ tplPc' = "parsed"
        /\ FieldCount(tplParts, sCircuit, 1) <= 1 /\ FieldCount(tplParts, sName, 1) <= 1)
      => ExactlyOnce(tplParts')]_vars

\* a template that held the name field only went through ensureDefault
C19_Witness ==
  /\ tplPc = "parsed"
  /\ tplParts = ensureDefault(ParseScan(tNameOnly, 0, FALSE, <<>>, <<>>))
  /\ ExactlyOnce(tplParts)

\* the topic options that are a plain literal prefix
PlainPrefixes == {t \in TemplateStrings : ValidTopicArg(t) /\ FindChar(t, "%", 0) = NPOS}

\* C20: a topic option that is a plain literal prefix P renders, after
\* ensureDefault, to P/circuit/name, and the empty template renders to
\* PACKAGE/circuit/name.
C20_PlainPrefixRendering ==
  tplPc = "rendered" =>
    /\ \A P \in PlainPrefixes :
         tplParts = ensureDefault(ParseScan(P, 0, FALSE, <<>>, <<>>)) =>
           tplRendered = P \o <<"/">> \o tplValues[sCircuit] \o <<"/">> \o tplValues[sName]
    /\ tplParts = ensureDefault(<<>>) =>
         tplRendered = PACKAGE \o <<"/">> \o tplValues[sCircuit] \o <<"/">> \o tplValues[sName]

-----------------------------------------------------------------------------
(* The variable store (MqttReplacers): constants and unresolved templates  *)

LowerSeq == <<"a","b","c","d","e","f","g","h","i","j","k","l","m",
              "n","o","p","q","r","s","t","u","v","w","x","y","z">>

UpperSeq == <<"A","B","C","D","E","F","G","H","I","J","K","L","M",
              "N","O","P","Q","R","S","T","U","V","W","X","Y","Z">>

\* the characters of the model in the order of their character codes
AsciiSeq == <<" ", "%", "-", ".", "/">> \o DigitSeq \o <<"=", "?">> \o UpperSeq
            \o <<"_">> \o LowerSeq

CharCode(c) == CHOOSE i \in 1..Len(AsciiSeq) : AsciiSeq[i] = c

\* ::toupper on one character
toupperChar(c) ==
  IF c \in LowerChars THEN UpperSeq[CHOOSE i \in 1..Len(LowerSeq) : LowerSeq[i] = c] ELSE c

\* transform(upper.begin(), upper.end(), upper.begin(), ::toupper)
toupper(str) == [i \in 1..Len(str) |-> toupperChar(str[i])]

\* std::less<string>, the order of the keys of a std::map<string, ...>
RECURSIVE StrLess(_, _)
StrLess(a, b) ==
  IF b = <<>> THEN FALSE
  ELSE IF a = <<>> THEN TRUE
  ELSE IF a[1] # b[1] THEN CharCode(a[1]) < CharCode(b[1])
  ELSE StrLess(Tail(a), Tail(b))

\* the keys of a std::map in iteration order
RECURSIVE SortedKeys(_)
SortedKeys(S) ==
  IF S = {} THEN <<>>
  ELSE LET first == CHOOSE k \in S : \A o \in S \ {k} : StrLess(k, o)
       IN <<first>> \o SortedKeys(S \ {first})

\* std::map: operator[] assignment and erase(key)
MapPut(f, k, v) == [x \in DOMAIN f \cup {k} |-> IF x = k THEN v ELSE f[x]]
MapErase(f, k) == [x \in DOMAIN f \ {k} |-> f[x]]

Replacers(c, r) == [c |-> c, r |-> r]

\* MqttReplacer::isReducable
isReducable(parts, values) ==
  \A i \in 1..Len(parts) : parts[i].second >= 0 => parts[i].first \in DOMAIN values

\* the loop of MqttReplacer::reduce: [ret, result]
RECURSIVE ReduceScan(_, _, _, _)
ReduceScan(self, values, i, ret) ==
  IF i > Len(self.parts) THEN [ret |-> TRUE, result |-> ret, done |-> FALSE]
  ELSE IF self.parts[i].second < 0
       THEN ReduceScan(self, values, i + 1, ret \o self.parts[i].first)
  ELSE IF self.parts[i].first \notin DOMAIN values
       THEN [ret |-> FALSE, result |-> IF self.emptyIfMissing THEN <<>> ELSE ret,
             done |-> TRUE]
  ELSE IF self.emptyIfMissing /\ values[self.parts[i].first] = <<>>
       THEN [ret |-> TRUE, result |-> <<>>, done |-> TRUE]
  ELSE ReduceScan(self, values, i + 1, ret \o values[self.parts[i].first])

\* MqttReplacer::reduce on the replacer self = [parts, emptyIfMissing]
replacerReduce(self, values, onlyAlphanum) ==
  LET r == ReduceScan(self, values, 1, <<>>)
  IN [ret |-> r.ret,
      result |-> IF ~r.done /\ onlyAlphanum THEN normalize(r.result) ELSE r.result]

\* key.find_first_of("-_") != string::npos
hasDashOrUnderscore(key) == FindChar(key, "-", 0) # NPOS \/ FindChar(key, "_", 0) # NPOS

\* MqttReplacers::set(key, value, removeReplacer) with the test for '-' and
\* '_' left out
storeSet_NoSeparatorTest(self, key, value, removeReplacer) ==
  LET c1 == MapPut(self.c, key, value)
      r1 == IF removeReplacer THEN MapErase(self.r, key) ELSE self.r
      upper == toupper(key)
  IN IF upper = key THEN [c |-> c1, r |-> r1, ret |-> FALSE]
     ELSE [c |-> MapPut(c1, upper, normalize(value)),
           r |-> IF removeReplacer THEN MapErase(r1, upper) ELSE r1,
           ret |-> TRUE]

\* MqttReplacers::set(key, value, removeReplacer): the store afterwards and
\* the returned flag
storeSet(self, key, value, removeReplacer) ==
  LET c1 == MapPut(self.c, key, value)
      r1 == IF removeReplacer THEN MapErase(self.r, key) ELSE self.r
      upper == toupper(key)
  IN IF hasDashOrUnderscore(key) THEN [c |-> c1, r |-> r1, ret |-> FALSE]
     ELSE IF upper = key THEN [c |-> c1, r |-> r1, ret |-> FALSE]
     ELSE [c |-> MapPut(c1, upper, normalize(value)),
           r |-> IF removeReplacer THEN MapErase(r1, upper) ELSE r1,
           ret |-> TRUE]

\* operator<< of a non-negative int
RECURSIVE DecDigits(_)
DecDigits(n) ==
  IF n < 10 THEN <<DigitSeq[n + 1]>> ELSE DecDigits(n \div 10) \o <<DigitSeq[(n % 10) + 1]>>

\* str << static_cast<signed>(value)
Decimal(n) == IF n < 0 THEN <<"-">> \o DecDigits(-n) ELSE DecDigits(n)

\* MqttReplacers::set(key, int)
storeSetInt(self, key, value) == Replacers(MapPut(self.c, key, Decimal(value)), self.r)

\* the constant-then-template lookup of MqttReplacers::get under one key,
\* <<found, value>>
storeFind(self, key, untilFirstEmpty, onlyAlphanum) ==
  IF key \in DOMAIN self.c THEN <<TRUE, self.c[key]>>
  ELSE IF key \in DOMAIN self.r
       THEN <<TRUE, get(self.r[key].parts, self.c, untilFirstEmpty, onlyAlphanum)>>
  ELSE <<FALSE, <<>>>>

\* MqttReplacers::get without the fallback key
storeGet_NoFallback(self, key, untilFirstEmpty, onlyAlphanum, fallbackKey) ==
  storeFind(self, key, untilFirstEmpty, onlyAlphanum)[2]

\* MqttReplacers::get(key, untilFirstEmpty, onlyAlphanum, fallbackKey)
storeGet(self, key, untilFirstEmpty, onlyAlphanum, fallbackKey) ==
  LET hit == storeFind(self, key, untilFirstEmpty, onlyAlphanum)
  IN IF hit[1] THEN hit[2]
     ELSE IF fallbackKey # <<>>
          THEN storeFind(self, fallbackKey, untilFirstEmpty, onlyAlphanum)[2]
     ELSE <<>>

\* "string upper = it->first" (line 652) when it is end(): the read is of no
\* element of the map; toupper is applied to whatever was read, so the
\* string compared with the keys holds no lower-case letter
EndReads(r) == {<<>>} \cup {k \in DOMAIN r : toupper(k) = k}

\* endRead: it->first was read with it == end()
PassResult(self, reduced, crashed, endRead) ==
  [s |-> self, reduced |-> reduced, crashed |-> crashed, endRead |-> endRead]

\* the for loop of MqttReplacers::reduce over the keys in map order, it at
\* keys[i]: the set of ways the pass can end
RECURSIVE reducePass(_, _, _, _)
reducePass(self, keys, i, reduced) ==
  IF i > Len(keys) THEN {PassResult(self, reduced, FALSE, FALSE)}
  ELSE
    LET it == keys[i]
        res == replacerReduce(self.r[it], self.c, FALSE)
    IN IF ~isReducable(self.r[it].parts, self.c) \/ ~res.ret
       THEN reducePass(self, keys, i + 1, reduced)
       ELSE
         LET st == storeSet(self, it, res.result, FALSE)
             erased == Replacers(st.c, MapErase(st.r, it))
         IN IF ~st.ret THEN reducePass(erased, keys, i + 1, TRUE)
            ELSE IF i < Len(keys)
                 THEN LET upper == toupper(keys[i + 1])
                      IN IF upper \in DOMAIN erased.r
                         THEN {PassResult(Replacers(erased.c, MapErase(erased.r, upper)),
                                          TRUE, FALSE, FALSE)}
                         ELSE reducePass(erased, keys, i + 1, TRUE)
            ELSE {PassResult(erased, TRUE, TRUE, TRUE)}
                 \cup {IF upper \in DOMAIN erased.r
                       THEN PassResult(Replacers(erased.c, MapErase(erased.r, upper)),
                                       TRUE, FALSE, TRUE)
                       ELSE PassResult(erased, TRUE, FALSE, TRUE) : upper \in EndReads(erased.r)}

\* MqttReplacers::reduce with a single pass instead of the do-while loop
storeReduce_SinglePass(self) ==
  {[s |-> p.s, crashed |-> p.crashed, endRead |-> p.endRead] :
     p \in reducePass(self, SortedKeys(DOMAIN self.r), 1, FALSE)}

\* the do-while loop of MqttReplacers::reduce; endRead tells whether an
\* earlier pass read it->first with it == end()
RECURSIVE reduceLoop(_, _)
reduceLoop(self, endRead) ==
  UNION {IF p.crashed THEN {[s |-> p.s, crashed |-> TRUE, endRead |-> TRUE]}
         ELSE IF p.reduced THEN reduceLoop(p.s, endRead \/ p.endRead)
         ELSE {[s |-> p.s, crashed |-> FALSE, endRead |-> endRead \/ p.endRead]} :
           p \in reducePass(self, SortedKeys(DOMAIN self.r), 1, FALSE)}

\* MqttReplacers::reduce: the set of ways it can end, [s, crashed, endRead]
storeReduce(self) == reduceLoop(self, FALSE)

WhiteSpace == {" ", "\t", "\r", "\n"}

\* FileReader::trim
RECURSIVE trim(_)
trim(str) ==
  IF str = <<>> THEN str
  ELSE IF str[1] \in WhiteSpace THEN trim(Tail(str))
  ELSE IF str[Len(str)] \in WhiteSpace THEN trim(SubSeq(str, 1, Len(str) - 1))
  ELSE str

\* MqttHandler::parseIntegration on the store self
parseIntegration(self, line) ==
  LET pos == FindChar(line, "=", 0)
  IN IF line = <<>> THEN self
     ELSE IF pos = NPOS \/ pos = 0 THEN self
     ELSE
       LET emptyIfMissing == line[pos] = "?"
           key == trim(IF emptyIfMissing THEN Substr(line, 0, pos - 1)
                       ELSE Substr(line, 0, pos))
           value == trim(SubstrFrom(line, pos + 1))
       IN IF FindChar(value, "%", 0) = NPOS
          THEN LET st == storeSet(self, key, value, TRUE) IN Replacers(st.c, st.r)
          ELSE LET old == IF key \in DOMAIN self.r THEN self.r[key]
                          ELSE [parts |-> <<>>, emptyIfMissing |-> FALSE]
                   p == parse(old, value, FALSE, FALSE, emptyIfMissing)
               IN Replacers(self.c,
                            MapPut(self.r, key,
                                   [parts |-> p.parts, emptyIfMissing |-> p.emptyIfMissing]))

-----------------------------------------------------------------------------
(* Specification SpecStore: any sequence of operations on one store         *)

kA == <<"a">>
kB == <<"b">>
kUpperA == <<"A">>
kA_B == <<"a", "_", "b">>
kNone == <<"n">>

vX == <<"x">>
vDotted == <<"x", ".", "y">>

\* "a=x.y", "a = x", "a=%b", "b=p%a_b", "A?=%a_b"
lineConstA == kA \o <<"=">> \o vDotted
lineSpacedA == kA \o <<" ", "=", " ">> \o vX
lineTemplateA == kA \o <<"=", "%">> \o kB
lineTemplateB == kB \o <<"=", "p", "%">> \o kA_B
lineTemplateUpperA == kUpperA \o <<"?", "=", "%">> \o kA_B

SetKeys == {kA, kUpperA, kA_B}
SetValues == {vX, vDotted}
IntKeys == {kA}
IntValues == {5}
IntegrationLines == {lineConstA, lineSpacedA, lineTemplateA, lineTemplateB, lineTemplateUpperA}
LookupKeys == {kA, kB, kNone}
FallbackKeys == {<<>>, kB}

StoreRest ==
  /\ TplIdle
  /\ CfgDefault
  /\ DispIdle
  /\ EngineIdle
  /\ m_definitionsSince = 0
  /\ pubs = <<>>

InitStore ==
  /\ StoreIdle
  /\ StoreRest

restVars == <<tplVars, cfgVars, dispVars, m_definitionsSince, engineVars, pubs>>

\* m_replacers.set(key, value, removeReplacer)
SetString ==
  /\ stOp.op # "crash"
  /\ \E key \in SetKeys, value \in SetValues, removeReplacer \in BOOLEAN :
       \E st \in {storeSet(Replacers(m_constants, m_replacers), key, value, removeReplacer)} :
         /\ m_constants' = st.c
         /\ m_replacers' = st.r
         /\ stOp' = [op |-> "set", key |-> key, value |-> value, ret |-> st.ret]
  /\ UNCHANGED <<intLines, restVars>>

\* msgValues.set(key, int)
SetInt ==
  /\ stOp.op # "crash"
  /\ \E key \in IntKeys, value \in IntValues :
       \E st \in {storeSetInt(Replacers(m_constants, m_replacers), key, value)} :
         /\ m_constants' = st.c
         /\ m_replacers' = st.r
         /\ stOp' = [op |-> "setInt", key |-> key, value |-> value]
  /\ UNCHANGED <<intLines, restVars>>

\* parseIntegration(line)
ParseLine ==
  /\ stOp.op # "crash"
  /\ \E line \in IntegrationLines :
       \E st \in {parseIntegration(Replacers(m_constants, m_replacers), line)} :
         /\ m_constants' = st.c
         /\ m_replacers' = st.r
         /\ stOp' = [op |-> "parse", line |-> line]
  /\ UNCHANGED <<intLines, restVars>>

\* m_replacers.reduce()
Reduce ==
  /\ stOp.op # "crash"
  /\ \E o \in storeReduce(Replacers(m_constants, m_replacers)) :
       /\ m_constants' = o.s.c
       /\ m_replacers' = o.s.r
       /\ stOp' = [op |-> IF o.crashed THEN "crash" ELSE "reduce", endRead |-> o.endRead]
  /\ UNCHANGED <<intLines, restVars>>

\* m_replacers.get(key, untilFirstEmpty, onlyAlphanum, fallbackKey)
Lookup ==
  /\ stOp.op # "crash"
  /\ \E key \in LookupKeys, untilFirstEmpty \in BOOLEAN, onlyAlphanum \in BOOLEAN,
        fallbackKey \in FallbackKeys :
       stOp' = [op |-> "lookup", key |-> key, untilFirstEmpty |-> untilFirstEmpty,
                onlyAlphanum |-> onlyAlphanum, fallbackKey |-> fallbackKey,
                out |-> storeGet(Replacers(m_constants, m_replacers), key,
                                 untilFirstEmpty, onlyAlphanum, fallbackKey)]
  /\ UNCHANGED <<m_constants, m_replacers, intLines, restVars>>

NextStore == SetString \/ SetInt \/ ParseLine \/ Reduce \/ Lookup

SpecStore == InitStore /\ [][NextStore]_vars

\* the name gets an upper-case mirror
mirrored(key) == ~hasDashOrUnderscore(key) /\ toupper(key) # key

\* C13: after any sequence of store operations every constant whose name has
\* neither '-' nor '_' and is not upper-case has a constant under its
\* upper-cased name whose value is the normalized form of its own value.
C13_MirrorInvariant ==
  \A key \in DOMAIN m_constants :
    mirrored(key) =>
      /\ toupper(key) \in DOMAIN m_constants
      /\ m_constants[toupper(key)] = normalize(m_constants[key])

\* C14: set(key, value) stores value under key; a key without '-' and '_' that
\* differs from its upper-casing also gets normalize(value) under the
\* upper-cased key and set returns true; otherwise set returns false and no
\* constant other than key is created or changed.
C14_SetStringContract ==
  [][stOp'.op = "set" =>
       LET key == stOp'.key
           value == stOp'.value
       IN /\ key \in DOMAIN m_constants'
          /\ m_constants'[key] = value
          /\ mirrored(key) =>
               /\ toupper(key) \in DOMAIN m_constants'
               /\ m_constants'[toupper(key)] = normalize(value)
               /\ stOp'.ret = TRUE
          /\ ~mirrored(key) =>
               /\ stOp'.ret = FALSE
               /\ DOMAIN m_constants' = DOMAIN m_constants \cup {key}
               /\ \A other \in DOMAIN m_constants \ {key} :
                    m_constants'[other] = m_constants[other]]_vars

\* set has stored a dotted value under "a" and its mirror, and has stored a
\* value under "a_b" without a mirror
C14_Witness ==
  /\ stOp.op = "set" /\ stOp.key = kA_B /\ ~stOp.ret
  /\ kA \in DOMAIN m_constants /\ m_constants[kA] = vDotted
  /\ m_constants[kUpperA] = normalize(vDotted)
  /\ toupper(kA_B) \notin DOMAIN m_constants

\* C15: in every reachable state of the store no name is at the same time a
\* constant and an unresolved template.
C15_ConstantXorTemplate ==
  DOMAIN m_constants \cap DOMAIN m_replacers = {}

\* C16: when reduce returns, no remaining template has all of its fields
\* among the constants, and a second reduce right away changes neither the
\* constants nor the templates.
C16_ReduceFixedPoint ==
  stOp.op = "reduce" =>
    /\ \A key \in DOMAIN m_replacers : ~isReducable(m_replacers[key].parts, m_constants)
    /\ storeReduce(Replacers(m_constants, m_replacers))
         = {[s |-> Replacers(m_constants, m_replacers), crashed |-> FALSE, endRead |-> FALSE]}

\* reduce has folded "a=%b" through "b=p%a_b", which takes two passes
C16_Witness ==
  /\ stOp.op = "reduce"
  /\ {kA, kB, kA_B} \subseteq DOMAIN m_constants
  /\ m_constants[kA] = <<"p">> \o m_constants[kA_B]
  /\ kB \in DOMAIN m_constants /\ m_constants[kB] = m_constants[kA]
  /\ m_replacers = <<>>

\* the two-step lookup under one name: the constant, else the template
\* rendered against the constants, else nothing
TwoStep(name, untilFirstEmpty, onlyAlphanum) ==
  IF name \in DOMAIN m_constants THEN <<m_constants[name]>>
  ELSE IF name \in DOMAIN m_replacers
       THEN <<get(m_replacers[name].parts, m_constants, untilFirstEmpty, onlyAlphanum)>>
  ELSE <<>>

\* C18: a lookup returns the constant under the name if there is one, else the
\* rendering of the template under the name against the constants if there is
\* one, else the same two steps under the fallback name if one is given, else
\* the empty string; the store is the same after the lookup.
C18_LookupContract ==
  [][stOp'.op = "lookup" =>
       LET own == TwoStep(stOp'.key, stOp'.untilFirstEmpty, stOp'.onlyAlphanum)
           fallback == TwoStep(stOp'.fallbackKey, stOp'.untilFirstEmpty, stOp'.onlyAlphanum)
       IN /\ m_constants' = m_constants
          /\ m_replacers' = m_replacers
          /\ stOp'.out = IF own # <<>> THEN own[1]
                         ELSE IF stOp'.fallbackKey # <<>> /\ fallback # <<>> THEN fallback[1]
                         ELSE <<>>]_vars

\* a lookup of a name that is neither constant nor template was answered by
\* rendering the template stored under the fallback name
C18_Witness ==
  /\ stOp.op = "lookup"
  /\ stOp.key = kNone /\ stOp.fallbackKey = kB
  /\ kB \notin DOMAIN m_constants /\ kB \in DOMAIN m_replacers
  /\ kA_B \in DOMAIN m_constants
  /\ stOp.out = <<"p">> \o m_constants[kA_B]

-----------------------------------------------------------------------------
(* Specification SpecChain: the constructor loads an integration text whose  *)
(* entries form a chain of references                                       *)

sMqtttopic == <<"m","q","t","t","t","o","p","i","c">>
sPrefix == <<"p","r","e","f","i","x">>
sPrefixn == sPrefix \o <<"n">>
PACKAGE_VERSION == <<"1", ".", "0">>

\* one entry "key=value" of an integration text
Entry(key, value) == [key |-> key, value |-> value]
entryLine(e) == e.key \o <<"=">> \o e.value

kC == <<"c">>
kAb == <<"A", "b">>
kUpperB == <<"B">>
kX == <<"x">>
kY == <<"y">>
kZ == <<"z">>
kD == <<"d">>

\* a=p%b, b=%c/, c=x.y
chainLower == {Entry(kA, <<"p", "%">> \o kB), Entry(kB, <<"%">> \o kC \o <<"/">>),
               Entry(kC, vDotted)}
\* B=p%Ab, Ab=%c, c=x
chainMixed == {Entry(kUpperB, <<"p", "%">> \o kAb), Entry(kAb, <<"%">> \o kC), Entry(kC, vX)}
\* x=%y, y=%z-, z=q
chainLate == {Entry(kX, <<"%">> \o kY), Entry(kY, <<"%">> \o kZ \o <<"-">>),
              Entry(kZ, <<"q">>)}
\* a=%b, b=%a_b, a_b=x
chainUnderscore == {Entry(kA, <<"%">> \o kB), Entry(kB, <<"%">> \o kA_B), Entry(kA_B, vX)}
\* a=%b, b=%c, c=%d., d=x
chainLong == {Entry(kA, <<"%">> \o kB), Entry(kB, <<"%">> \o kC),
              Entry(kC, <<"%">> \o kD \o <<".">>), Entry(kD, vX)}

Chains == {chainLower, chainMixed, chainLate, chainUnderscore, chainLong}

\* every order of the entries of a chain
Orders(chain) ==
  {o \in [1..Cardinality(chain) -> chain] : \A i, j \in 1..Cardinality(chain) :
                                              i # j => o[i] # o[j]}

IntegrationTexts == UNION {Orders(chain) : chain \in Chains}

InitChain ==
  /\ m_constants = <<>>
  /\ m_replacers = <<>>
  /\ stOp = NoOp
  /\ intLines \in IntegrationTexts
  /\ StoreRest

\* line.find_last_not_of("/_"), the scan from position i downwards
RECURSIVE FindLastNotOf(_, _, _)
FindLastNotOf(str, chars, i) ==
  IF i < 0 THEN NPOS
  ELSE IF str[i + 1] \notin chars THEN i
  ELSE FindLastNotOf(str, chars, i - 1)

\* the store of the constructor before the first line of the file is read
storeBeforeLoad ==
  LET s0 == Replacers(<<>>, MapPut(<<>>, sMqtttopic,
                                   [parts |-> g_topicReplacer, emptyIfMissing |-> FALSE]))
      s1 == storeSet(s0, sVersion, PACKAGE_VERSION, TRUE)
      line == storeGet(s1, sMqtttopic, TRUE, FALSE, <<>>)
      s2 == storeSet(s1, sPrefix, line, TRUE)
      pos == FindLastNotOf(line, {"/", "_"}, Len(line) - 1)
  IN storeSet(s2, sPrefixn, Substr(line, 0, pos + 1), TRUE)

\* parseIntegration on every entry, in file order
RECURSIVE parseEntries(_, _, _)
parseEntries(self, entries, i) ==
  IF i > Len(entries) THEN self
  ELSE parseEntries(parseIntegration(self, entryLine(entries[i])), entries, i + 1)

\* MqttHandler::MqttHandler with an integration file: the store is filled and
\* reduced
LoadIntegration ==
  /\ stOp = NoOp
  /\ \E o \in storeReduce(parseEntries(Replacers(storeBeforeLoad.c, storeBeforeLoad.r),
                                       intLines, 1)) :
       /\ m_constants' = o.s.c
       /\ m_replacers' = o.s.r
       /\ stOp' = [op |-> IF o.crashed THEN "crash" ELSE "load", endRead |-> o.endRead]
  /\ UNCHANGED <<intLines, restVars>>

\* a lookup in the loaded store, as the constructor and run make them
LookupLoaded ==
  /\ stOp.op \in {"load", "lookup"}
  /\ \E i \in 1..Len(intLines) :
       stOp' = [op |-> "lookup", key |-> intLines[i].key, untilFirstEmpty |-> FALSE,
                onlyAlphanum |-> FALSE, fallbackKey |-> <<>>,
                out |-> storeGet(Replacers(m_constants, m_replacers), intLines[i].key,
                                 FALSE, FALSE, <<>>)]
  /\ UNCHANGED <<m_constants, m_replacers, intLines, restVars>>

NextChain == LoadIntegration \/ LookupLoaded

SpecChain == InitChain /\ [][NextChain]_vars

\* the value of the entry of the text under key
entryValue(entries, key) ==
  entries[CHOOSE i \in 1..Len(entries) : entries[i].key = key].value

\* the text of the entry under key with every reference substituted
RECURSIVE Substituted(_, _)
Substituted(entries, key) ==
  LET parts == ParseScan(entryValue(entries, key), 0, FALSE, <<>>, <<>>)
      fields == {parts[i].first : i \in {j \in 1..Len(parts) : parts[j].second >= 0}}
  IN IF FindChar(entryValue(entries, key), "%", 0) = NPOS THEN entryValue(entries, key)
     ELSE get(parts, [f \in fields |-> Substituted(entries, f)], FALSE, FALSE)

\* C17: after a chain of definitions with distinct keys was loaded in any
\* order and reduced once, every key of the chain is a constant whose value is
\* its fully substituted text and no template of the chain is left.
C17_ChainResolvedInAnyOrder ==
  stOp.op \in {"load", "lookup"} =>
    \A i \in 1..Len(intLines) :
      /\ intLines[i].key \in DOMAIN m_constants
      /\ intLines[i].key \notin DOMAIN m_replacers
      /\ m_constants[intLines[i].key] = Substituted(intLines, intLines[i].key)

-----------------------------------------------------------------------------
(* Specification SpecParse: parse, get, reduce and matchTopic called on one  *)
(* template                                                                 *)

sFoo == <<"f", "o", "o">>

\* "a%%b", "%%%name", "x/%circuit%%", "%circuit/%name", "%circuit-%name",
\* "%foo/%circuit", "%name%name", "a%/b"
tPercent == <<"a", "%", "%", "b">>
tPercentName == <<"%", "%", "%">> \o sName
tCircuitPercent == <<"x", "/", "%">> \o sCircuit \o <<"%", "%">>
tBare == <<"%">> \o sCircuit \o <<"/", "%">> \o sName
tBareDash == <<"%">> \o sCircuit \o <<"-", "%">> \o sName
tFooCircuit == <<"%">> \o sFoo \o <<"/", "%">> \o sCircuit
tNameName == <<"%">> \o sName \o <<"%">> \o sName
tLonePercent == <<"a", "%", "/", "b">>

ParseStrings == {<<>>, sEbusd, tFull, tPercent, tPercentName, tCircuitPercent, tBare,
                 tBareDash, tFooCircuit, tNameName, tLonePercent}

\* value sets that may lack a field or hold an empty value
ParseValueSets ==
  {[k \in d |-> IF k = sCircuit THEN c ELSE IF k = sName THEN sTemp ELSE sBai] :
      d \in {{sCircuit, sName, sFoo}, {sCircuit, sFoo}, {sName, sFoo}},
      c \in {sHeating, <<>>}}

\* "ebusd/heating/temp", "other/heating/temp", "heating/temp", "heating-temp",
\* "ebusd/heating"
cFull == sEbusd \o <<"/">> \o sHeating \o <<"/">> \o sTemp
cOther == <<"o","t","h","e","r","/">> \o sHeating \o <<"/">> \o sTemp
cBare == sHeating \o <<"/">> \o sTemp
cDash == sHeating \o <<"-">> \o sTemp
cShort == sEbusd \o <<"/">> \o sHeating

MatchCandidates == {cFull, cOther, cBare, cDash, cShort}

Call(op, str, parsed, args, out) ==
  [op |-> op, str |-> str, parsed |-> parsed, args |-> args, out |-> out]

InitParse ==
  /\ tplParts \in {<<>>, DefaultTopicReplacer}
  /\ m_emptyIfMissing \in BOOLEAN
  /\ tplValues \in ParseValueSets
  /\ tplCall = NoCall
  /\ tplRendered = <<>>
  /\ tplMatch = NoMatch
  /\ tplPc = "direct"
  /\ StoreIdle
  /\ CfgDefault
  /\ DispIdle
  /\ EngineIdle
  /\ m_definitionsSince = 0
  /\ pubs = <<>>

parseRest == <<cfgVars, dispVars, m_definitionsSince, engineVars, pubs, storeVars>>

\* MqttReplacer::parse on the template
ParseCall ==
  /\ \E str \in ParseStrings, onlyKnown \in BOOLEAN, noKnownDuplicates \in BOOLEAN,
        emptyIfMissing \in BOOLEAN :
       \E r \in {parse([parts |-> tplParts, emptyIfMissing |-> m_emptyIfMissing], str,
                       onlyKnown, noKnownDuplicates, emptyIfMissing)} :
         /\ tplParts' = r.parts
         /\ m_emptyIfMissing' = r.emptyIfMissing
         /\ tplCall' = Call("parse", str, r.ret,
                            [onlyKnown |-> onlyKnown, noKnownDuplicates |-> noKnownDuplicates,
                             emptyIfMissing |-> emptyIfMissing], r.ret)
  /\ tplRendered' = <<>>
  /\ tplMatch' = NoMatch
  /\ UNCHANGED <<tplValues, tplPc, parseRest>>

\* MqttReplacer::get on the parsed template
GetCall ==
  /\ tplCall.op # "none"
  /\ \E untilFirstEmpty \in BOOLEAN, onlyAlphanum \in BOOLEAN :
       /\ tplRendered' = get(tplParts, tplValues, untilFirstEmpty, onlyAlphanum)
       /\ tplCall' = Call("get", tplCall.str, tplCall.parsed,
                          [untilFirstEmpty |-> untilFirstEmpty, onlyAlphanum |-> onlyAlphanum],
                          tplRendered')
  /\ tplMatch' = NoMatch
  /\ UNCHANGED <<tplParts, m_emptyIfMissing, tplValues, tplPc, parseRest>>

\* MqttReplacer::reduce on the parsed template
ReduceCall ==
  /\ tplCall.op # "none"
  /\ \E onlyAlphanum \in BOOLEAN :
       tplCall' = Call("reduce", tplCall.str, tplCall.parsed, [onlyAlphanum |-> onlyAlphanum],
                       replacerReduce([parts |-> tplParts, emptyIfMissing |-> m_emptyIfMissing],
                                      tplValues, onlyAlphanum))
  /\ tplRendered' = <<>>
  /\ tplMatch' = NoMatch
  /\ UNCHANGED <<tplParts, m_emptyIfMissing, tplValues, tplPc, parseRest>>

\* MqttReplacer::matchTopic on the parsed template
MatchCall ==
  /\ tplCall.op # "none"
  /\ \E remain \in MatchCandidates :
       /\ tplMatch' = matchTopic(tplParts, remain)
       /\ tplCall' = Call("match", tplCall.str, tplCall.parsed, [remain |-> remain],
                          tplMatch'.ret)
  /\ tplRendered' = <<>>
  /\ UNCHANGED <<tplParts, m_emptyIfMissing, tplValues, tplPc, parseRest>>

NextParse == ParseCall \/ GetCall \/ ReduceCall \/ MatchCall

SpecParse == InitParse /\ [][NextParse]_vars

\* the length of the run of field-name characters of str that starts at
\* position i (1-based)
RECURSIVE FieldRun(_, _)
FieldRun(str, i) ==
  IF i > Len(str) \/ ~IsFieldChar(str[i]) THEN 0 ELSE 1 + FieldRun(str, i + 1)

\* every '%' of str from position i on starts a field name or belongs to a
\* "%%" pair
RECURSIVE WellFormed(_, _)
WellFormed(str, i) ==
  IF i > Len(str) THEN TRUE
  ELSE IF str[i] # "%" THEN WellFormed(str, i + 1)
  ELSE IF i < Len(str) /\ str[i + 1] = "%" THEN WellFormed(str, i + 2)
  ELSE FieldRun(str, i + 1) > 0 /\ WellFormed(str, i + 1 + FieldRun(str, i + 1))

\* the fields str names from position i on
RECURSIVE FieldsOf(_, _)
FieldsOf(str, i) ==
  IF i > Len(str) THEN {}
  ELSE IF str[i] # "%" THEN FieldsOf(str, i + 1)
  ELSE IF i < Len(str) /\ str[i + 1] = "%" THEN FieldsOf(str, i + 2)
  ELSE {SubSeq(str, i + 1, i + FieldRun(str, i + 1))}
       \cup FieldsOf(str, i + 1 + FieldRun(str, i + 1))

\* the text of str from position i on with each placeholder replaced by its
\* value and each "%%" by "%"
RECURSIVE Filled(_, _, _)
Filled(str, i, values) ==
  IF i > Len(str) THEN <<>>
  ELSE IF str[i] # "%" THEN <<str[i]>> \o Filled(str, i + 1, values)
  ELSE IF i < Len(str) /\ str[i + 1] = "%" THEN <<"%">> \o Filled(str, i + 2, values)
  ELSE values[SubSeq(str, i + 1, i + FieldRun(str, i + 1))]
       \o Filled(str, i + 1 + FieldRun(str, i + 1), values)

C22_FailedParseKeepsState ==
  [][(tplCall'.op = "parse" /\ ~tplCall'.out) =>
       (tplParts' = tplParts /\ m_emptyIfMissing' = m_emptyIfMissing)]_vars

\* a field of the template is missing from the value set
missingField(parts, values) ==
  \E i \in 1..Len(parts) : parts[i].second >= 0 /\ parts[i].first \notin DOMAIN values

\* a field of the template has an empty value
emptyField(parts, values) ==
  \E i \in 1..Len(parts) :
    parts[i].second >= 0 /\ parts[i].first \in DOMAIN values /\ values[parts[i].first] = <<>>

\* the parts before the first field that is missing from the value set
RECURSIVE beforeMissing(_, _, _)
beforeMissing(parts, values, i) ==
  IF i > Len(parts) THEN <<>>
  ELSE IF parts[i].second >= 0 /\ parts[i].first \notin DOMAIN values THEN <<>>
  ELSE <<parts[i]>> \o beforeMissing(parts, values, i + 1)

\* C23: with emptyIfMissing set, reduce returns the empty string and reports
\* resolved whenever a field is missing or has an empty value; without the
\* flag and with a missing field it reports unresolved and returns what was
\* rendered before the missing field.
C23_ReduceMissingOrEmpty ==
  tplCall.op = "reduce" =>
    /\ (m_emptyIfMissing /\ (missingField(tplParts, tplValues) \/ emptyField(tplParts, tplValues)))
         => (tplCall.out.ret /\ tplCall.out.result = <<>>)
    /\ (~m_emptyIfMissing /\ missingField(tplParts, tplValues))
         => /\ ~tplCall.out.ret
            /\ tplCall.out.result =
                 get(beforeMissing(tplParts, tplValues, 1), tplValues, FALSE, FALSE)

\* the literal parts from part i on occur in remain, in order, from position
\* from on
RECURSIVE LiteralsInOrder(_, _, _, _)
LiteralsInOrder(parts, i, remain, from) ==
  IF i > Len(parts) THEN TRUE
  ELSE IF parts[i].second >= 0 THEN LiteralsInOrder(parts, i + 1, remain, from)
  ELSE /\ Find(remain, parts[i].first, from) # NPOS
       /\ LiteralsInOrder(parts, i + 1, remain,
                          Find(remain, parts[i].first, from) + Len(parts[i].first))

\* C24: matchTopic returns a non-negative value only when every part of the
\* template matched; a literal part that does not occur in the candidate makes
\* it return a negative value.
C24_FailedMatchIsNegative ==
  (tplCall.op = "match" /\ tplMatch.ret >= 0) =>
    /\ tplMatch.ret = Len(tplParts)
    /\ LiteralsInOrder(tplParts, 1, tplCall.args.remain, 0)

-----------------------------------------------------------------------------
(* Dispatch errors                                                          *)

\* the lookups of the last notifyTopic found no message
lookupFailed ==
  /\ findCalls # <<>>
  /\ \A i \in 1..Len(findCalls) :
       mapFind(findCalls[i].circuit, findCalls[i].name, findCalls[i].isWrite,
               findCalls[i].relaxed) = NullMessage

\* C25: a get or set on a non-passive message publishes nothing when the bus
\* operation fails and calls publishMessage exactly once, for that message,
\* when it succeeds; an unknown circuit/name causes neither a bus operation
\* nor a publish; the handler keeps taking inbound messages.
C25_DispatchErrorsDropCommand ==
  /\ (busCalls # <<>> /\ busRet # RESULT_OK) => (pubMsgs = <<>> /\ pubs = <<>>)
  /\ (busCalls # <<>> /\ busRet = RESULT_OK) =>
       /\ Len(busCalls) = 1
       /\ pubMsgs = <<[message |-> busCalls[1].message, includeWithoutData |-> FALSE]>>
  /\ lookupFailed => (busCalls = <<>> /\ pubMsgs = <<>> /\ pubs = <<>>)
  /\ running /\ ENABLED OnMessage

\* a get reached the bus, the bus returned an error and nothing was published
C25_Witness ==
  /\ busCalls # <<>>
  /\ busRet = RESULT_ERR
  /\ pubMsgs = <<>>
  /\ pubs = <<>>

\* what matchTopic made of the topic of the last get or set
lastMatch == matchTopic(g_topicReplacer, Substr(inTopic, 0, RFindChar(inTopic, "/")))

\* the last inbound message was a get or set whose topic did not match the
\* subscribe template
unmatchedCommand ==
  /\ RFindChar(inTopic, "/") # NPOS
  /\ inTopic # m_subscribeConfigRestartTopic
  /\ SubstrFrom(inTopic, RFindChar(inTopic, "/") + 1) \in {sGet, sSet}
  /\ lastMatch.ret < 0

\* C35: a get or set whose topic fails to match the subscribe template is
\* logged and then handled with the circuit and name extracted so far: without
\* a name it is dropped before any catalog lookup; with a name the catalog is
\* searched for that circuit and name, and a non-passive message found this way
\* goes to the bus.
C35_UnmatchedProceedsWithPartial ==
  unmatchedCommand =>
    /\ errLogged
    /\ findCalls = <<>> <=> lastMatch.name = <<>>
    /\ lastMatch.name = <<>> => (busCalls = <<>> /\ pubMsgs = <<>> /\ pubs = <<>>)
    /\ lastMatch.name # <<>> =>
         /\ findCalls[1].circuit = lastMatch.circuit
         /\ findCalls[1].name = lastMatch.name
         /\ \A i \in 1..Len(findCalls) :
              LET message == mapFind(findCalls[i].circuit, findCalls[i].name,
                                     findCalls[i].isWrite, findCalls[i].relaxed)
              IN (message # NullMessage /\ ~Catalog[message].isPassive) =>
                   (Len(busCalls) = 1 /\ busCalls[1].message = message)

\* a get on "ebusd/heating/temp/temp/x" under the template with a field: the
\* match failed at the field, the name "temp" was extracted and the message
\* went to the bus
C35_Witness ==
  /\ unmatchedCommand
  /\ errLogged
  /\ lastMatch.name = sTemp
  /\ busCalls # <<>>

-----------------------------------------------------------------------------
(* The erasures and iterator reads of MqttReplacers::reduce                  *)

\* the store of the constructor when the last entry was parsed, before reduce
loadedStore ==
  parseEntries(Replacers(storeBeforeLoad.c, storeBeforeLoad.r), intLines, 1)

\* C26: reduce removes a template only when it has stored a constant under
\* that template's name (its own value, or the mirror of the template just
\* reduced): no template is removed without a constant taking its place.
C26_ErasedOnlyWhenReduced ==
  stOp.op = "load" =>
    \A key \in DOMAIN loadedStore.r \ DOMAIN m_replacers : key \in DOMAIN m_constants

\* C27: reduce reads the key of its iterator only while the iterator refers
\* to an entry, never at end().
C27_NoReadAtEnd ==
  stOp.op \in {"load", "crash"} => ~stOp.endRead


-----------------------------------------------------------------------------
(* Specification SpecTypes: the type suffix of a field in the definition    *)
(* pass and the lookup of its type mapping                                  *)

sNumber == <<"n","u","m","b","e","r">>
sBits == <<"b","i","t","s">>
sString == <<"s","t","r","i","n","g">>
sDate == <<"d","a","t","e">>
sTime == <<"t","i","m","e">>
sDatetime == sDate \o sTime
sTypeDash == <<"t","y","p","e","-">>

typeNames == <<sNumber, sBits, sString, sDate, sTime, sDatetime>>

\* what run asks a DataType: isNumeric(), getBitCount(), hasFlag(DAT) and, of a
\* DateTimeDataType, hasDate() and hasTime()
DataType(isNumeric, bitCount, isDat, hasDate, hasTime) ==
  [isNumeric |-> isNumeric, bitCount |-> bitCount, isDat |-> isDat,
   hasDate |-> hasDate, hasTime |-> hasTime]

\* numbers of 1, 7, 8 and 16 bits, the date, time and date-time types and a
\* string type of 8 bits
DataTypes ==
  {DataType(TRUE, bits, FALSE, FALSE, FALSE) : bits \in {1, 7, 8, 16}}
  \cup {DataType(FALSE, 32, TRUE, TRUE, FALSE), DataType(FALSE, 24, TRUE, FALSE, TRUE),
        DataType(FALSE, 56, TRUE, TRUE, TRUE), DataType(FALSE, 8, FALSE, FALSE, FALSE)}

\* run: typeSuffix of a field of that data type
typeSuffix(dataType) ==
  IF dataType.isNumeric
  THEN (IF dataType.bitCount < 8 THEN sBits ELSE sNumber)
  ELSE IF dataType.isDat
  THEN (IF dataType.hasDate
        THEN (IF dataType.hasDate THEN sDatetime ELSE sDate)
        ELSE sTime)
  ELSE sString

\* the integration file maps some of the type names ("type-number = ...")
TypeMappings ==
  {[k \in {sTypeDash \o typeNames[i] : i \in mapped} |-> SubstrFrom(k, Len(sTypeDash))] :
     mapped \in SUBSET (1..Len(typeNames))}

InitTypes ==
  /\ m_constants \in TypeMappings
  /\ m_replacers = <<>>
  /\ stOp = NoOp
  /\ intLines = <<>>
  /\ StoreRest

\* run: the type suffix of one field and the lookup of "type-" + typeSuffix
FieldType ==
  /\ \E dataType \in DataTypes :
     \E suffix \in {typeSuffix(dataType)} :
       stOp' = [op |-> "type", dataType |-> dataType, typeSuffix |-> suffix,
                str |-> storeGet(Replacers(m_constants, m_replacers),
                                 sTypeDash \o suffix, FALSE, FALSE, <<>>)]
  /\ UNCHANGED <<m_constants, m_replacers, intLines, restVars>>

NextTypes == FieldType

SpecTypes == InitTypes /\ [][NextTypes]_vars

\* C32: the type suffix is "bits" for a number of fewer than 8 bits and
\* "number" for any other number; for a date/time type "datetime" with a date
\* and a time part, "date" with a date part only, "time" with a time part only;
\* "string" for everything else; each of the six suffixes is produced for some
\* data type.
C32_TypeSuffixByDataType ==
  stOp.op = "type" =>
    /\ LET dataType == stOp.dataType
       IN stOp.typeSuffix =
            (CASE dataType.isNumeric /\ dataType.bitCount < 8 -> sBits
               [] dataType.isNumeric /\ dataType.bitCount >= 8 -> sNumber
               [] ~dataType.isNumeric /\ dataType.isDat
                  /\ dataType.hasDate /\ dataType.hasTime -> sDatetime
               [] ~dataType.isNumeric /\ dataType.isDat
                  /\ dataType.hasDate /\ ~dataType.hasTime -> sDate
               [] ~dataType.isNumeric /\ dataType.isDat
                  /\ ~dataType.hasDate -> sTime
               [] OTHER -> sString)
    /\ \A i \in 1..Len(typeNames) :
         \E dataType \in DataTypes : typeSuffix(dataType) = typeNames[i]

====
